---- MODULE Spec2Model ----
(***************************************************************************)
(* Model of the Gemini maintenance-schedule extraction pipeline            *)
(* (maintenance_schedule/scripts/gemini_extract_schedule.py).              *)
(*                                                                         *)
(* The relational store is modelled with PostgreSQL's transaction          *)
(* semantics as psycopg2 exposes them (autocommit off): `txn` is the view  *)
(* of the connection's open transaction, `db` the committed store;         *)
(* conn.commit() copies txn to db, conn.rollback() copies db to txn.       *)
(* Serial id sequences are not transactional: a rolled-back INSERT still   *)
(* consumes its id.                                                        *)
(*                                                                         *)
(* Strings whose characters matter (item names) are sequences of one-      *)
(* character strings; all other strings are atoms.  NULL stands for SQL    *)
(* NULL, Python None and an absent JSON key.                               *)
(***************************************************************************)
EXTENDS Integers, Sequences, FiniteSets, TLC

\* ------------------------------------------------------------------------
\* Bounds of the model
\* ------------------------------------------------------------------------

\* Number of process_config invocations explored over all run() calls.
MaxRuns == 2

\* ------------------------------------------------------------------------
\* Program constants
\* ------------------------------------------------------------------------

\* match_item accepts the best fuzzy candidate iff ratio >= 0.80 (in percent).
FUZZY_THRESHOLD_PCT == 80

NULL == "NULL"

\* ------------------------------------------------------------------------
\* Strings as character sequences: str.lower(), str.strip()
\* ------------------------------------------------------------------------

LowerChar(c) ==
    CASE c = "A" -> "a" [] c = "B" -> "b" [] c = "C" -> "c" [] c = "D" -> "d"
      [] c = "E" -> "e" [] c = "F" -> "f" [] c = "G" -> "g" [] c = "H" -> "h"
      [] c = "I" -> "i" [] c = "J" -> "j" [] c = "K" -> "k" [] c = "L" -> "l"
      [] c = "M" -> "m" [] c = "N" -> "n" [] c = "O" -> "o" [] c = "P" -> "p"
      [] c = "Q" -> "q" [] c = "R" -> "r" [] c = "S" -> "s" [] c = "T" -> "t"
      [] c = "U" -> "u" [] c = "V" -> "v" [] c = "W" -> "w" [] c = "X" -> "x"
      [] c = "Y" -> "y" [] c = "Z" -> "z"
      [] OTHER -> c

Lower(s) == [i \in 1..Len(s) |-> LowerChar(s[i])]

\* The whitespace of str.strip() and of the regular expressions' \s.
Whitespace == {" ", "\n"}

RECURSIVE LStrip(_)
LStrip(s) == IF s # <<>> /\ Head(s) \in Whitespace THEN LStrip(Tail(s)) ELSE s

RECURSIVE RStrip(_)
RStrip(s) ==
    IF s # <<>> /\ s[Len(s)] \in Whitespace THEN RStrip(SubSeq(s, 1, Len(s) - 1)) ELSE s

Strip(s) == RStrip(LStrip(s))

\* item_name.lower().strip()
Normalize(s) == Strip(Lower(s))

\* ------------------------------------------------------------------------
\* difflib.SequenceMatcher(None, a, b).ratio()
\* (no junk; the autojunk heuristic only applies to sequences of 200+)
\* ------------------------------------------------------------------------

\* Blocks a[i+1..i+k] = b[j+1..j+k] inside a[alo..ahi), b[blo..bhi) (0-based,
\* half-open, as in difflib).
MatchingAt(a, b, i, j, k) == \A d \in 1..k : a[i + d] = b[j + d]

Blocks(a, b, alo, ahi, blo, bhi) ==
    { t \in (alo..(ahi - 1)) \X (blo..(bhi - 1)) \X (1..(ahi - alo)) :
        /\ t[1] + t[3] <= ahi
        /\ t[2] + t[3] <= bhi
        /\ MatchingAt(a, b, t[1], t[2], t[3]) }

\* find_longest_match: the longest block; of those the one starting earliest
\* in a; of those the one starting earliest in b.  <<alo, blo, 0>> if none.
FindLongestMatch(a, b, alo, ahi, blo, bhi) ==
    LET bs == Blocks(a, b, alo, ahi, blo, bhi)
    IN  IF bs = {} THEN <<alo, blo, 0>>
        ELSE CHOOSE t \in bs :
                \A u \in bs :
                    \/ t[3] > u[3]
                    \/ t[3] = u[3] /\ t[1] < u[1]
                    \/ t[3] = u[3] /\ t[1] = u[1] /\ t[2] <= u[2]

\* Sum of the sizes of get_matching_blocks(): the longest match, then
\* recursively the pieces to its left and to its right.
RECURSIVE MatchCount(_, _, _, _, _, _)
MatchCount(a, b, alo, ahi, blo, bhi) ==
    IF alo >= ahi \/ blo >= bhi THEN 0
    ELSE LET m == FindLongestMatch(a, b, alo, ahi, blo, bhi)
         IN  IF m[3] = 0 THEN 0
             ELSE m[3]
                  + MatchCount(a, b, alo, m[1], blo, m[2])
                  + MatchCount(a, b, m[1] + m[3], ahi, m[2] + m[3], bhi)

\* ratio() = 2.0 * M / T, 1.0 when T = 0; kept as the fraction <<num, den>>.
Ratio(a, b) ==
    LET T == Len(a) + Len(b)
    IN  IF T = 0 THEN <<1, 1>>
        ELSE <<2 * MatchCount(a, b, 0, Len(a), 0, Len(b)), T>>

\* Comparison of two ratios (fractions with positive denominators).
RatioGT(r, s) == r[1] * s[2] > s[1] * r[2]

\* best_ratio > 0.80
RatioAccepted_Strict(r) == r[1] * 100 > FUZZY_THRESHOLD_PCT * r[2]

\* best_ratio >= 0.80
RatioAccepted(r) == r[1] * 100 >= FUZZY_THRESHOLD_PCT * r[2]

\* ------------------------------------------------------------------------
\* Python dicts (insertion-ordered) as sequences of <<key, value>>
\* ------------------------------------------------------------------------

DictHas(d, k) == \E i \in 1..Len(d) : d[i][1] = k

DictGet(d, k) == d[CHOOSE i \in 1..Len(d) : d[i][1] = k][2]

DictSet(d, k, v) ==
    IF DictHas(d, k)
    THEN [i \in 1..Len(d) |-> IF d[i][1] = k THEN <<k, v>> ELSE d[i]]
    ELSE Append(d, <<k, v>>)

DictValues(d) == {d[i][2] : i \in 1..Len(d)}

\* ------------------------------------------------------------------------
\* Data of the model
\* ------------------------------------------------------------------------

\* None as an id (config_id=None, "return None" of match_item).
NULL_ID == 0

\* None / absent as an item name (names are character sequences).
NullName == <<NULL>>

OIL == <<"o", "i", "l">>
OIL_CAP == <<"O", "i", "l", " ">>
BELT == <<"B", "e", "l", "t">>
LUBE == <<"l", "u", "b", "e">>

\* nhtsa_vehicle_taxonomy: the columns the pipeline reads.  The other
\* GROUP BY columns (displacement, cylinders, fuel, induction) are equal on
\* all rows and left out.
TaxIds == 1..4

Taxonomy ==
    [id \in TaxIds |->
        CASE id = 1 -> [make |-> "VOLVO", engine_code |-> "E1",
                        transmission_type |-> "automatic", drive_type |-> "awd"]
          [] id = 2 -> [make |-> "HONDA", engine_code |-> "E1",
                        transmission_type |-> "automatic", drive_type |-> "awd"]
          [] id = 3 -> [make |-> "VOLVO", engine_code |-> "E1",
                        transmission_type |-> "manual", drive_type |-> "awd"]
          [] OTHER  -> [make |-> "HONDA", engine_code |-> "E0",
                        transmission_type |-> "automatic", drive_type |-> NULL]]

\* UPPER(make)
Upper(m) ==
    CASE m = "volvo" -> "VOLVO"
      [] m = "honda" -> "HONDA"
      [] OTHER -> m

\* Values of --make (None with --all) and of --limit.
MakeArgs == {NULL, "volvo"}

\* The schedule_entries / fluid_specifications elements an LLM answer carries.
Entry(name, rel) ==
    [item_name |-> name, relative_item_name |-> rel,
     action_type |-> NullName, interval_miles |-> <<>>,
     interval_months |-> <<>>]

\* A fluid_specifications element: fluid_type and the seven data fields
\* (fluid.get(...) of an absent key is None).
FluidOf(type, liters, quarts, note, spec, alt, part, warning) ==
    [fluid_type |-> type, capacity_liters |-> liters,
     capacity_quarts |-> quarts, capacity_note |-> note,
     fluid_spec |-> spec, fluid_spec_alt |-> alt,
     oem_part_number |-> part, fluid_warning |-> warning]

Fluid(type, spec) == FluidOf(type, NULL, NULL, NULL, spec, NULL, NULL, NULL)

NoNames == <<Entry(NullName, NullName), Entry(<<>>, NullName)>>

EntryLists == { <<>>, NoNames, <<Entry(OIL_CAP, NullName)>>, <<Entry(BELT, NullName)>> }

FluidLists == { <<>>, <<Fluid("engine_oil", "0W-20")>> }

TransCodes == {NULL, "", "T1"}

AllKeys == {"powertrain", "schedule_entries", "fluid_specifications"}

\* The parsed LLM answers explored; keys is the set of top-level keys
\* present.  The transmission code varies with a named entry, the entries
\* vary with a null transmission code, and one answer has no key at all.
GeminiData ==
    { d \in [keys : {AllKeys, {}},
             powertrain : [transmission_code : TransCodes, drive_type : {"fwd"}],
             schedule_entries : EntryLists,
             fluid_specifications : FluidLists] :
        \/ /\ d.keys = AllKeys
           /\ d.schedule_entries = <<Entry(OIL_CAP, NullName)>>
           /\ d.fluid_specifications # <<>>
        \/ /\ d.keys = AllKeys
           /\ d.powertrain.transmission_code = NULL
           /\ d.fluid_specifications = <<>>
        \/ /\ d.keys = {}
           /\ d.powertrain.transmission_code = NULL
           /\ d.schedule_entries = <<>>
           /\ d.fluid_specifications = <<>> }

\* What call_gemini does: returns parsed data, or raises.
CallOutcomes == {"ok", "HTTPError", "ValueError", "Exception"}

\* The database statement that raises psycopg2.Error in an invocation.
FailPoints ==
    {"none", "find_or_create", "insert_schedule", "insert_fluid",
     "vehicle_apps", "update_taxonomy", "log_ingestion", "commit"}

\* dict.get(key, default)
JsonGet(data, key, default) == IF key \in data.keys THEN data[key] ELSE default

\* Python truthiness of a string atom and of a name.
Truthy(v) == v # NULL /\ v # ""

TruthyName(n) == n # NullName /\ n # <<>>

\* a or b or c
Or3(a, b, c) == IF Truthy(a) THEN a ELSE IF Truthy(b) THEN b ELSE c

\* ------------------------------------------------------------------------
\* State
\* ------------------------------------------------------------------------

VARIABLES
    db,             \* the committed store
    txn,            \* the store as the connection's open transaction sees it
    seq,            \* serial sequences of maintenance_items, powertrain_configs
    items_cache,    \* self.items_cache: normalized name -> item id
    aliases_cache,  \* self.aliases_cache: normalized alias -> item id
    stats,          \* self.stats counters
    dry_run,        \* self.dry_run
    pc,             \* where run() is: "idle" (not running) or "loop"
    configs,        \* run(): the configs still to process, in order
    runNo,          \* history: number of process_config invocations so far
    hist,           \* history: the outcome of each invocation
    last,           \* history: the latest invocation in detail
    procs,          \* two pipeline processes on one database, by --make
    cg,             \* one call of call_gemini: its locals and what it did
    rl,             \* a driver loop and its sleeps, as a clock sees them
    app             \* a pure function applied on its own: input and result

\* The variables of the parts of the program studied on their own.
auxVars == <<cg, rl, app>>

vars ==
    <<db, txn, seq, items_cache, aliases_cache, stats, dry_run, pc, configs,
      runNo, hist, last, procs, cg, rl, app>>

\* The tables.  `writes` is history: the pairs <<invocation, table>> whose
\* writes this view of the store holds.
EmptyStore ==
    [taxonomy |-> [id \in TaxIds |->
                     [schedule_status |-> "pending",
                      powertrain_config_id |-> NULL_ID]],
     powertrain_configs |-> {},
     maintenance_items |->
        {[id |-> 1, name |-> OIL, name_aliases |-> <<LUBE>>,
          category_id |-> 1, is_powertrain_dependent |-> TRUE]},
     maintenance_schedules |-> <<>>,
     fluid_specifications |-> {},
     vehicle_applications |-> {},
     gemini_ingestion_log |-> <<>>,
     writes |-> {}]

\* _load_maintenance_items: the caches as loaded from a store.
LoadItemsCache(store) ==
    LET ids == {it.id : it \in store.maintenance_items}
        RECURSIVE Load(_, _)
        Load(left, d) ==
            IF left = {} THEN d
            ELSE LET i == CHOOSE m \in left : \A n \in left : m <= n
                     it == CHOOSE r \in store.maintenance_items : r.id = i
                 IN  Load(left \ {i}, DictSet(d, Normalize(it.name), it.id))
    IN  Load(ids, <<>>)

LoadAliasesCache(store) ==
    LET ids == {it.id : it \in store.maintenance_items}
        RECURSIVE AddAll(_, _, _)
        AddAll(aliases, id, d) ==
            IF aliases = <<>> THEN d
            ELSE AddAll(Tail(aliases), id, DictSet(d, Normalize(Head(aliases)), id))
        RECURSIVE Load(_, _)
        Load(left, d) ==
            IF left = {} THEN d
            ELSE LET i == CHOOSE m \in left : \A n \in left : m <= n
                     it == CHOOSE r \in store.maintenance_items : r.id = i
                 IN  Load(left \ {i}, AddAll(it.name_aliases, it.id, d))
    IN  Load(ids, <<>>)

\* ------------------------------------------------------------------------
\* The working state of one process_config invocation: the mutable objects
\* it touches, threaded through the steps in program order.
\*   raised: the exception in flight ("none" when there is none)
\*   ret, ret2: the last helper's return value(s)
\* ------------------------------------------------------------------------

\* A statement writes table `kind`: the new view, and the history of it
\* (order: the tables written and the commits, in program order).
Write(S, kind, store) ==
    [S EXCEPT !.txn = [store EXCEPT !.writes = @ \cup {<<S.run, kind>>}],
              !.wrote = @ \cup {kind},
              !.order = Append(@, kind)]

Raise(S, point) ==
    [S EXCEPT !.raised = "psycopg2.Error", !.failed_at = point]

\* An exception is in flight.
Raised(S) == S.raised # "none"

\* self.conn.commit(); a failing COMMIT leaves nothing of the transaction.
\* Like every statement below, it is not reached while an exception is in
\* flight.
commit(S) ==
    IF Raised(S) THEN S
    ELSE IF S.fail_at = "commit" THEN Raise(S, "commit")
    ELSE [S EXCEPT !.db = S.txn, !.order = Append(@, "commit")]

\* conn.rollback() that discards nothing.
rollback_Keeps(S) == S

\* self.conn.rollback()
rollback(S) == [S EXCEPT !.txn = S.db]

IncStat(S, counter) == [S EXCEPT !.stats[counter] = @ + 1]

\* SQL "a = b": never true of NULL.
SqlEq(a, b) == a # NULL /\ b # NULL /\ a = b

\* ------------------------------------------------------------------------
\* Item matching
\* ------------------------------------------------------------------------

\* The fuzzy loops of match_item: the first candidate of the highest ratio,
\* over items_cache then aliases_cache; [ratio, id], id = NULL_ID if no
\* candidate has a ratio above 0.
Better(best, ratio, item_id) ==
    IF RatioGT(ratio, best.ratio) THEN [ratio |-> ratio, id |-> item_id]
    ELSE best

RECURSIVE BestMatch(_, _, _)
BestMatch(normalized, cands, best) ==
    IF cands = <<>> THEN best
    ELSE BestMatch(normalized, Tail(cands),
                   Better(best, Ratio(normalized, Head(cands)[1]), Head(cands)[2]))

\* Keyword -> category, in declaration order.
ITEM_CATEGORY_KEYWORDS ==
    <<
    <<<<"o", "i", "l">>, "engine">>,
    <<<<"e", "n", "g", "i", "n", "e">>, "engine">>,
    <<<<"b", "e", "l", "t">>, "engine">>,
    <<<<"p", "c", "v">>, "engine">>,
    <<<<"v", "a", "l", "v", "e">>, "engine">>,
    <<<<"t", "i", "m", "i", "n", "g">>, "engine">>,
    <<<<"s", "p", "a", "r", "k">>, "ignition">>,
    <<<<"i", "g", "n", "i", "t", "i", "o", "n">>, "ignition">>,
    <<<<"f", "i", "l", "t", "e", "r">>, "filters">>,
    <<<<"c", "a", "b", "i", "n">>, "filters">>,
    <<<<"b", "r", "a", "k", "e", " ", "f", "l", "u", "i", "d">>, "fluids">>,
    <<<<"b", "r", "a", "k", "e">>, "brakes">>,
    <<<<"r", "o", "t", "o", "r">>, "brakes">>,
    <<<<"p", "a", "d">>, "brakes">>,
    <<<<"d", "r", "u", "m">>, "brakes">>,
    <<<<"p", "a", "r", "k", "i", "n", "g">>, "brakes">>,
    <<<<"c", "o", "o", "l", "a", "n", "t">>, "cooling">>,
    <<<<"r", "a", "d", "i", "a", "t", "o", "r">>, "cooling">>,
    <<<<"t", "r", "a", "n", "s", "m", "i", "s", "s", "i", "o", "n", " ", "f", "l", "u", "i", "d">>, "fluids">>,
    <<<<"a", "t", "f">>, "fluids">>,
    <<<<"d", "i", "f", "f", "e", "r", "e", "n", "t", "i", "a", "l">>, "fluids">>,
    <<<<"t", "r", "a", "n", "s", "f", "e", "r", " ", "c", "a", "s", "e">>, "fluids">>,
    <<<<"p", "o", "w", "e", "r", " ", "s", "t", "e", "e", "r", "i", "n", "g">>, "fluids">>,
    <<<<"f", "l", "u", "i", "d">>, "fluids">>,
    <<<<"t", "i", "r", "e">>, "tires_wheels">>,
    <<<<"w", "h", "e", "e", "l">>, "tires_wheels">>,
    <<<<"t", "p", "m", "s">>, "tires_wheels">>,
    <<<<"s", "t", "e", "e", "r", "i", "n", "g">>, "steering_suspension">>,
    <<<<"s", "u", "s", "p", "e", "n", "s", "i", "o", "n">>, "steering_suspension">>,
    <<<<"b", "a", "l", "l", " ", "j", "o", "i", "n", "t">>, "steering_suspension">>,
    <<<<"t", "i", "e", " ", "r", "o", "d">>, "steering_suspension">>,
    <<<<"c", "v">>, "drivetrain">>,
    <<<<"p", "r", "o", "p", "e", "l", "l", "e", "r">>, "drivetrain">>,
    <<<<"d", "r", "i", "v", "e", " ", "s", "h", "a", "f", "t">>, "drivetrain">>,
    <<<<"a", "x", "l", "e">>, "drivetrain">>,
    <<<<"e", "x", "h", "a", "u", "s", "t">>, "exhaust">>,
    <<<<"e", "v", "a", "p">>, "exhaust">>,
    <<<<"c", "a", "t", "a", "l", "y", "t", "i", "c">>, "exhaust">>,
    <<<<"f", "u", "e", "l">>, "fuel_system">>,
    <<<<"b", "a", "t", "t", "e", "r", "y">>, "electrical">>,
    <<<<"l", "i", "g", "h", "t">>, "electrical">>,
    <<<<"l", "a", "m", "p">>, "electrical">>,
    <<<<"h", "o", "r", "n">>, "electrical">>,
    <<<<"w", "i", "p", "e", "r">>, "hvac">>,
    <<<<"s", "e", "a", "t", " ", "b", "e", "l", "t">>, "safety">>,
    <<<<"a", "i", "r", "b", "a", "g">>, "safety">>,
    <<<<"d", "o", "o", "r">>, "body">>,
    <<<<"s", "u", "n", "r", "o", "o", "f">>, "body">>,
    <<<<"b", "o", "d", "y">>, "body">>
    >>

\* self.category_ids as _load_categories loads it: the closed set of
\* categories of maintenance_item_categories, by name.
category_ids ==
    << <<"engine", 1>>, <<"ignition", 2>>, <<"filters", 3>>, <<"fluids", 4>>,
       <<"brakes", 5>>, <<"cooling", 6>>, <<"tires_wheels", 7>>,
       <<"steering_suspension", 8>>, <<"drivetrain", 9>>, <<"exhaust", 10>>,
       <<"fuel_system", 11>>, <<"electrical", 12>>, <<"hvac", 13>>,
       <<"safety", 14>>, <<"body", 15>> >>

\* `keyword in name_lower`
Contains(s, keyword) ==
    \E i \in 0..(Len(s) - Len(keyword)) :
        SubSeq(s, i + 1, i + Len(keyword)) = keyword

\* The loop without its break: the last keyword wins.
Category_LastKeyword(name_lower) ==
    LET found == {k \in 1..Len(ITEM_CATEGORY_KEYWORDS) :
                    Contains(name_lower, ITEM_CATEGORY_KEYWORDS[k][1])}
    IN  IF found = {} THEN "engine"
        ELSE ITEM_CATEGORY_KEYWORDS[CHOOSE k \in found :
                                       \A j \in found : j <= k][2]

\* The category loop of _create_maintenance_item: the category of the
\* first keyword of the table that name_lower contains, else "engine".
Category(name_lower) ==
    LET found == {k \in 1..Len(ITEM_CATEGORY_KEYWORDS) :
                    Contains(name_lower, ITEM_CATEGORY_KEYWORDS[k][1])}
    IN  IF found = {} THEN "engine"
        ELSE ITEM_CATEGORY_KEYWORDS[CHOOSE k \in found :
                                       \A j \in found : k <= j][2]

\* cat_id = self.category_ids.get(category, self.category_ids.get("engine", 1))
CategoryId(category) ==
    IF DictHas(category_ids, category) THEN DictGet(category_ids, category)
    ELSE IF DictHas(category_ids, "engine") THEN DictGet(category_ids, "engine")
    ELSE 1

\* _create_maintenance_item: INSERT ... ON CONFLICT (name) DO UPDATE
\* RETURNING id, then seed items_cache.  The sequence value is consumed
\* whether or not the name conflicts.
UpsertItem(S, item_name, same, new_id) ==
    IF same = {}
    THEN [Write(S, "maintenance_items",
                [S.txn EXCEPT !.maintenance_items = @ \cup
                    {[id |-> new_id, name |-> item_name,
                      name_aliases |-> <<item_name>>,
                      category_id |-> CategoryId(Category(Lower(item_name))),
                      is_powertrain_dependent |-> TRUE]}])
            EXCEPT !.seq.maintenance_items = new_id,
                   !.items_cache = DictSet(@, Normalize(item_name), new_id),
                   !.ret = new_id]
    ELSE [Write(S, "maintenance_items", S.txn)
            EXCEPT !.seq.maintenance_items = new_id,
                   !.items_cache = DictSet(@, Normalize(item_name),
                                           (CHOOSE it \in same : TRUE).id),
                   !.ret = (CHOOSE it \in same : TRUE).id]

create_maintenance_item(S, item_name) ==
    UpsertItem(S, item_name,
               {it \in S.txn.maintenance_items : it.name = item_name},
               S.seq.maintenance_items + 1)

\* match_item from "if best_ratio >= 0.80" on, given the best candidate.
MatchFuzzy(S, item_name, normalized, best) ==
    IF RatioAccepted(best.ratio)
    THEN [S EXCEPT !.items_cache = DictSet(@, normalized, best.id),
                   !.ret = best.id]
    ELSE create_maintenance_item(S, item_name)

\* The aliases looked up before the names.
MatchNormalized_AliasFirst(S, item_name, normalized) ==
    IF DictHas(S.aliases_cache, normalized)
    THEN [S EXCEPT !.ret = DictGet(S.aliases_cache, normalized)]
    ELSE IF DictHas(S.items_cache, normalized)
    THEN [S EXCEPT !.ret = DictGet(S.items_cache, normalized)]
    ELSE MatchFuzzy(S, item_name, normalized,
                    BestMatch(normalized, S.items_cache \o S.aliases_cache,
                              [ratio |-> <<0, 1>>, id |-> NULL_ID]))

\* match_item from the exact match on, given the normalized name.
MatchNormalized(S, item_name, normalized) ==
    IF DictHas(S.items_cache, normalized)
    THEN [S EXCEPT !.ret = DictGet(S.items_cache, normalized)]
    ELSE IF DictHas(S.aliases_cache, normalized)
    THEN [S EXCEPT !.ret = DictGet(S.aliases_cache, normalized)]
    ELSE MatchFuzzy(S, item_name, normalized,
                    BestMatch(normalized, S.items_cache \o S.aliases_cache,
                              [ratio |-> <<0, 1>>, id |-> NULL_ID]))

\* Returns the item id in ret.
match_item(S, item_name) ==
    IF ~TruthyName(item_name) THEN [S EXCEPT !.ret = NULL_ID]
    ELSE MatchNormalized(S, item_name, Normalize(item_name))

\* ------------------------------------------------------------------------
\* Powertrain config
\* ------------------------------------------------------------------------

\* Returns (config_id, is_existing) in ret, ret2.
\* The SELECT: the rows of the triple; a falsy transmission code (None or
\* the empty string) is looked up with IS NULL.
SelectConfig(store, engine_code, trans_code, drive_type) ==
    {r \in store.powertrain_configs :
        /\ SqlEq(r.engine_code, engine_code)
        /\ IF Truthy(trans_code)
           THEN SqlEq(r.transmission_code, trans_code)
           ELSE r.transmission_code = NULL
        /\ SqlEq(r.drive_type, drive_type)}

\* cur.fetchone() of the SELECT, then the INSERT if there is no row.
FindOrInsert(S, rows, new_id, engine_code, trans_code, drive_type, make) ==
    IF S.fail_at = "find_or_create" THEN Raise(S, "find_or_create")
    ELSE IF rows # {}
    THEN [S EXCEPT !.ret = (CHOOSE r \in rows : \A q \in rows : r.id <= q.id).id,
                   !.ret2 = TRUE]
    ELSE [Write(S, "powertrain_configs",
                [S.txn EXCEPT !.powertrain_configs = @ \cup
                    {[id |-> new_id,
                      engine_code |-> engine_code,
                      transmission_code |-> trans_code,
                      drive_type |-> drive_type,
                      oem_make |-> make]}])
            EXCEPT !.seq.powertrain_configs = new_id,
                   !.ret = new_id,
                   !.ret2 = FALSE]

FindOrCreate(S, config, engine_code, trans_code, drive_type) ==
    FindOrInsert(S, SelectConfig(S.txn, engine_code, trans_code, drive_type),
                 S.seq.powertrain_configs + 1,
                 engine_code, trans_code, drive_type, config.make)

FindOrCreatePt(S, config, pt) ==
    FindOrCreate(S, config, config.engine_code, pt.transmission_code,
                 Or3(config.drive_type, pt.drive_type, "fwd"))

find_or_create_powertrain_config(S, config, gemini_data) ==
    FindOrCreatePt(S, config,
                   JsonGet(gemini_data, "powertrain",
                           [transmission_code |-> NULL, drive_type |-> NULL]))

\* ------------------------------------------------------------------------
\* Action types
\* ------------------------------------------------------------------------

REPLACE == <<"r", "e", "p", "l", "a", "c", "e">>
INSPECT == <<"i", "n", "s", "p", "e", "c", "t">>
CHECK == <<"c", "h", "e", "c", "k">>
LUBRICATE == <<"l", "u", "b", "r", "i", "c", "a", "t", "e">>
ROTATE == <<"r", "o", "t", "a", "t", "e">>
CLEAN == <<"c", "l", "e", "a", "n">>
RESET == <<"r", "e", "s", "e", "t">>
ADJUST == <<"a", "d", "j", "u", "s", "t">>
TIGHTEN_TORQUE == <<"t", "i", "g", "h", "t", "e", "n", "_", "t", "o", "r", "q", "u", "e">>
DIAGNOSE_TEST == <<"d", "i", "a", "g", "n", "o", "s", "e", "_", "t", "e", "s", "t">>

VALID_ACTION_TYPES ==
    {REPLACE, INSPECT, CHECK, LUBRICATE, ROTATE,
     CLEAN, RESET, ADJUST, TIGHTEN_TORQUE, DIAGNOSE_TEST}

\* The dict in declaration order: <<raw, action type>>.
ACTION_TYPE_MAP ==
    <<<<<<"c", "h", "a", "n", "g", "e">>, REPLACE>>,
      <<<<"f", "l", "u", "s", "h">>, REPLACE>>,
      <<<<"s", "e", "r", "v", "i", "c", "e">>, REPLACE>>,
      <<<<"r", "e", "f", "i", "l", "l">>, REPLACE>>,
      <<<<"t", "o", "p", "_", "o", "f", "f">>, CHECK>>,
      <<<<"t", "o", "p", " ", "o", "f", "f">>, CHECK>>,
      <<<<"e", "x", "a", "m", "i", "n", "e">>, INSPECT>>,
      <<<<"t", "e", "s", "t">>, DIAGNOSE_TEST>>,
      <<<<"m", "e", "a", "s", "u", "r", "e">>, CHECK>>,
      <<<<"t", "o", "r", "q", "u", "e">>, TIGHTEN_TORQUE>>,
      <<<<"l", "u", "b", "e">>, LUBRICATE>>,
      <<<<"g", "r", "e", "a", "s", "e">>, LUBRICATE>>>>

\* The lookup without the test for a valid action type.
NormalizedAction_MapOnly(lower) ==
    IF DictHas(ACTION_TYPE_MAP, lower) THEN DictGet(ACTION_TYPE_MAP, lower)
    ELSE INSPECT

\* From "if lower in VALID_ACTION_TYPES" on.
NormalizedAction(lower) ==
    IF lower \in VALID_ACTION_TYPES THEN lower
    ELSE IF DictHas(ACTION_TYPE_MAP, lower) THEN DictGet(ACTION_TYPE_MAP, lower)
    ELSE INSPECT

\* The normalizer without raw.lower().strip().
_normalize_action_type_Raw(raw) ==
    IF ~TruthyName(raw) THEN INSPECT ELSE NormalizedAction(raw)

\* raw is None (NullName), or a string.
_normalize_action_type(raw) ==
    IF ~TruthyName(raw) THEN INSPECT ELSE NormalizedAction(Normalize(raw))

\* ------------------------------------------------------------------------
\* _validate_entry
\*
\* A JSON value where an integer is expected is <<>> for null, <<n>> for
\* the integer n and <<"str", s>> for the string s; a string that is built
\* (a note) is the sequence of its pieces.
\* ------------------------------------------------------------------------

Rule(rule_name, item, action, min, max) ==
    [rule_name |-> rule_name, applies_to_item_name |-> item,
     applies_to_action_type |-> action,
     min_interval_miles |-> min, max_interval_miles |-> max,
     min_interval_months |-> <<>>, max_interval_months |-> <<>>]

\* self.validation_rules of the pipeline: the active rows loaded at start.
validation_rules ==
    <<Rule("oil_change", OIL, REPLACE, <<3000>>, <<15000>>)>>

IsStr(v) == Len(v) = 2

\* Truth value of an integer or None: None and 0 are false.
TruthyInt(v) == v # <<>> /\ v[1] # 0

\* Truth value of a JSON value: an empty string is false too.
TruthyValue(v) == IF IsStr(v) THEN v[2] # "" ELSE TruthyInt(v)

\* The rule applies: the `continue`s of the loop are not taken.
Applicable(rule, item_name, action_type) ==
    /\ ~(/\ TruthyName(rule.applies_to_item_name)
         /\ rule.applies_to_item_name # item_name
         /\ ~RatioAccepted(Ratio(Lower(item_name),
                                 Lower(rule.applies_to_item_name))))
    /\ ~(/\ TruthyName(rule.applies_to_action_type)
         /\ rule.applies_to_action_type # action_type)

\* interval_miles < rule["min_interval_miles"] (or > the max) is reached
\* with a str on the left and an int on the right: TypeError.
Incomparable(rule, item_name, action_type, interval_miles) ==
    /\ Applicable(rule, item_name, action_type)
    /\ TruthyInt(rule.min_interval_miles) \/ TruthyInt(rule.max_interval_miles)
    /\ IsStr(interval_miles)
    /\ TruthyValue(interval_miles)

\* The violation strings one rule appends: the min form, then the max form.
RuleViolations(rule, item_name, action_type, interval_miles) ==
    IF ~Applicable(rule, item_name, action_type) THEN <<>>
    ELSE (IF /\ TruthyInt(rule.min_interval_miles)
             /\ TruthyValue(interval_miles)
             /\ interval_miles[1] < rule.min_interval_miles[1]
          THEN << <<rule.rule_name, ": ", ToString(interval_miles[1]), " mi < ",
                    ToString(rule.min_interval_miles[1]), " mi min">> >>
          ELSE <<>>)
         \o
         (IF /\ TruthyInt(rule.max_interval_miles)
             /\ TruthyValue(interval_miles)
             /\ interval_miles[1] > rule.max_interval_miles[1]
          THEN << <<rule.rule_name, ": ", ToString(interval_miles[1]), " mi > ",
                    ToString(rule.max_interval_miles[1]), " mi max">> >>
          ELSE <<>>)

\* violations, after the loop over the rules from rule r on.
RECURSIVE Violations(_, _, _, _, _)
Violations(rules, r, item_name, action_type, interval_miles) ==
    IF r > Len(rules) THEN <<>>
    ELSE RuleViolations(rules[r], item_name, action_type, interval_miles)
         \o Violations(rules, r + 1, item_name, action_type, interval_miles)

\* "; ".join(violations)
RECURSIVE Join(_)
Join(violations) ==
    IF Len(violations) = 1 THEN violations[1]
    ELSE violations[1] \o <<"; ">> \o Join(Tail(violations))

\* Returns (needs_review, notes, confidence).
Validated(violations) ==
    IF violations # <<>>
    THEN [raised |-> "none", needs_review |-> TRUE,
          notes |-> Join(violations), confidence |-> "low"]
    ELSE [raised |-> "none", needs_review |-> FALSE,
          notes |-> NullName, confidence |-> "high"]

\* The violation strings of a rule that bounds the months as it bounds the
\* miles.
MonthViolations(rule, item_name, action_type, interval_months) ==
    IF ~Applicable(rule, item_name, action_type) THEN <<>>
    ELSE (IF /\ TruthyInt(rule.min_interval_months)
             /\ TruthyInt(interval_months)
             /\ interval_months[1] < rule.min_interval_months[1]
          THEN << <<rule.rule_name, ": ", ToString(interval_months[1]),
                    " mo < ", ToString(rule.min_interval_months[1]),
                    " mo min">> >>
          ELSE <<>>)
         \o
         (IF /\ TruthyInt(rule.max_interval_months)
             /\ TruthyInt(interval_months)
             /\ interval_months[1] > rule.max_interval_months[1]
          THEN << <<rule.rule_name, ": ", ToString(interval_months[1]),
                    " mo > ", ToString(rule.max_interval_months[1]),
                    " mo max">> >>
          ELSE <<>>)

\* A validator that checks the month bounds after the mile bounds.
_validate_entry_Months(rules, item_name, action_type, interval_miles, interval_months) ==
    LET RECURSIVE Months(_)
        Months(r) ==
            IF r > Len(rules) THEN <<>>
            ELSE MonthViolations(rules[r], item_name, action_type,
                                 interval_months) \o Months(r + 1)
    IN  IF \E r \in 1..Len(rules) :
              Incomparable(rules[r], item_name, action_type, interval_miles)
        THEN [raised |-> "TypeError", needs_review |-> FALSE,
              notes |-> NullName, confidence |-> "none"]
        ELSE Validated(
                Violations(rules, 1, item_name, action_type, interval_miles)
                \o Months(1))

\* The result, or the exception the loop raises at its first comparison of
\* a str with an int.  interval_months and the rules' month bounds are
\* never read.
_validate_entry(rules, item_name, action_type, interval_miles, interval_months) ==
    IF \E r \in 1..Len(rules) :
          Incomparable(rules[r], item_name, action_type, interval_miles)
    THEN [raised |-> "TypeError", needs_review |-> FALSE,
          notes |-> NullName, confidence |-> "none"]
    ELSE Validated(Violations(rules, 1, item_name, action_type, interval_miles))

\* ------------------------------------------------------------------------
\* Schedule entries, fluid specifications, vehicle applications
\* ------------------------------------------------------------------------

\* One INSERT INTO maintenance_schedules, v being _validate_entry's result.
InsertSchedule(S, config_id, item_id, relative_item_id, entry, action_type, v) ==
    IF S.fail_at = "insert_schedule" THEN Raise(S, "insert_schedule")
    ELSE Write(S, "maintenance_schedules",
               [S.txn EXCEPT !.maintenance_schedules =
                   Append(@, [powertrain_config_id |-> config_id,
                              maintenance_item_id |-> item_id,
                              action_type |-> action_type,
                              interval_miles |-> entry.interval_miles,
                              relative_item_id |-> relative_item_id,
                              data_confidence |-> v.confidence,
                              needs_review |-> v.needs_review,
                              review_notes |-> v.notes,
                              run |-> S.run])])

\* inserted += 1 after the INSERT.
Counted(S3, inserted) ==
    IF Raised(S3) THEN S3 ELSE [S3 EXCEPT !.ret = inserted + 1]

\* From "Handle relative_to_item" on, S2 holding relative_item_id in ret.
InsertWithRelative(S2, config_id, item_id, inserted, entry, action_type, v) ==
    Counted(InsertSchedule(S2, config_id, item_id, S2.ret, entry, action_type, v),
            inserted)

\* From "if needs_review" on; an exception of _validate_entry goes on to
\* the caller.
InsertValidated(S1, config_id, entry, inserted, action_type, v) ==
    IF v.raised # "none"
    THEN [S1 EXCEPT !.raised = v.raised, !.failed_at = "validate_entry"]
    ELSE InsertWithRelative(
            IF TruthyName(entry.relative_item_name)
            THEN match_item(S1, entry.relative_item_name)
            ELSE [S1 EXCEPT !.ret = NULL_ID],
            config_id, S1.ret, inserted, entry, action_type, v)

\* From "# Validate" on.
InsertNormalized(S1, config_id, entry, inserted, action_type) ==
    InsertValidated(S1, config_id, entry, inserted, action_type,
                    _validate_entry(S1.validation_rules, entry.item_name,
                                    action_type, entry.interval_miles,
                                    entry.interval_months))

\* From "if not item_id" on, S1 holding match_item's result in ret.
InsertMatched(S1, config_id, entry, inserted) ==
    IF S1.ret = NULL_ID THEN [S1 EXCEPT !.ret = inserted]
    ELSE InsertNormalized(S1, config_id, entry, inserted,
                          _normalize_action_type(entry.action_type))

\* The body of the loop over entries for one entry; ret counts the inserts.
InsertEntry(S, config_id, entry) ==
    IF ~TruthyName(entry.item_name) THEN S
    ELSE InsertMatched(match_item(S, entry.item_name), config_id, entry, S.ret)

RECURSIVE InsertEntries(_, _, _)
InsertEntries(S, config_id, entries) ==
    IF entries = <<>> \/ Raised(S) THEN S
    ELSE InsertEntries(InsertEntry(S, config_id, Head(entries)),
                       config_id, Tail(entries))

\* Returns the number of rows inserted in ret.
insert_schedule_entries(S, config_id, entries) ==
    InsertEntries([S EXCEPT !.ret = 0], config_id, entries)

\* COALESCE(a, b)
COALESCE(a, b) == IF a # NULL THEN a ELSE b

\* The row of the VALUES list.
Excluded(config_id, fluid) ==
    [powertrain_config_id |-> config_id,
     fluid_type |-> fluid.fluid_type,
     capacity_liters |-> fluid.capacity_liters,
     capacity_quarts |-> fluid.capacity_quarts,
     capacity_note |-> fluid.capacity_note,
     fluid_spec |-> fluid.fluid_spec,
     fluid_spec_alt |-> fluid.fluid_spec_alt,
     oem_part_number |-> fluid.oem_part_number,
     fluid_warning |-> fluid.fluid_warning]

\* DO UPDATE SET ...: the three columns of the SET list.
DoUpdate(f, excluded) ==
    [f EXCEPT !.fluid_spec = COALESCE(excluded.fluid_spec, @),
              !.capacity_liters = COALESCE(excluded.capacity_liters, @),
              !.capacity_quarts = COALESCE(excluded.capacity_quarts, @)]

\* One INSERT ... ON CONFLICT (powertrain_config_id, fluid_type) DO UPDATE,
\* old being the rows in conflict.
UpsertFluidRow(S, config_id, fluid, old) ==
    IF S.fail_at = "insert_fluid" THEN Raise(S, "insert_fluid")
    ELSE Write(S, "fluid_specifications",
               [S.txn EXCEPT !.fluid_specifications =
                   IF old = {}
                   THEN @ \cup {Excluded(config_id, fluid)}
                   ELSE (@ \ old) \cup
                        {DoUpdate(f, Excluded(config_id, fluid)) : f \in old}])

\* An INSERT without the ON CONFLICT clause and without the constraint.
UpsertFluid_NoConflict(S, config_id, fluid) ==
    UpsertFluidRow(S, config_id, fluid, {})

UpsertFluid(S, config_id, fluid) ==
    UpsertFluidRow(S, config_id, fluid,
                   {f \in S.txn.fluid_specifications :
                       /\ f.powertrain_config_id = config_id
                       /\ f.fluid_type = fluid.fluid_type})

RECURSIVE insert_fluid_specs(_, _, _)
insert_fluid_specs(S, config_id, fluids) ==
    IF fluids = <<>> \/ Raised(S) THEN S
    ELSE insert_fluid_specs(
            IF Truthy(Head(fluids).fluid_type)
            THEN UpsertFluid(S, config_id, Head(fluids))
            ELSE S,
            config_id, Tail(fluids))

\* One row per make of the source taxonomy rows (one model per make here);
\* ON CONFLICT DO NOTHING.
InsertApplications(S, rows) ==
    IF Raised(S) THEN S
    ELSE IF S.fail_at = "vehicle_apps" THEN Raise(S, "vehicle_apps")
    ELSE IF rows \subseteq S.txn.vehicle_applications THEN S
    ELSE Write(S, "vehicle_applications",
               [S.txn EXCEPT !.vehicle_applications = @ \cup rows])

create_vehicle_applications(S, config_id, taxonomy_ids) ==
    InsertApplications(S,
        {[powertrain_config_id |-> config_id, make |-> Taxonomy[id].make]
            : id \in taxonomy_ids})

\* ------------------------------------------------------------------------
\* Logging and status updates
\* ------------------------------------------------------------------------

log_ingestion(S, status, config_id, is_duplicate) ==
    IF Raised(S) THEN S
    ELSE IF S.fail_at = "log_ingestion" THEN Raise(S, "log_ingestion")
    ELSE Write(S, "gemini_ingestion_log",
               [S.txn EXCEPT !.gemini_ingestion_log =
                   Append(@, [status |-> status,
                              powertrain_config_id |-> config_id,
                              is_duplicate_config |-> is_duplicate,
                              run |-> S.run])])

\* UPDATE ... WHERE id = ANY(taxonomy_ids) AND schedule_status = 'pending'
UpdateRows(S, hit, config_id, status) ==
    IF Raised(S) THEN S
    ELSE IF S.fail_at = "update_taxonomy" THEN Raise(S, "update_taxonomy")
    ELSE IF hit = {} THEN S
    ELSE Write(S, "nhtsa_vehicle_taxonomy",
               [S.txn EXCEPT !.taxonomy =
                   [id \in TaxIds |->
                       IF id \in hit
                       THEN [schedule_status |-> status,
                             powertrain_config_id |-> config_id]
                       ELSE @[id]]])

\* The UPDATE without "AND schedule_status = 'pending'".
update_taxonomy_status_AnyStatus(S, taxonomy_ids, config_id, status) ==
    UpdateRows(S, taxonomy_ids, config_id, status)

update_taxonomy_status(S, taxonomy_ids, config_id, status) ==
    UpdateRows(S,
               {id \in taxonomy_ids :
                   S.txn.taxonomy[id].schedule_status = "pending"},
               config_id, status)

\* ------------------------------------------------------------------------
\* Main processing
\* ------------------------------------------------------------------------

\* An except clause has taken the exception.
Caught(S) == [S EXCEPT !.raised = "none"]

Return(S, outcome) == [S EXCEPT !.outcome = outcome]

\* except psycopg2.Error: rollback, count an error, return.
DbError(S) == Return(IncStat(rollback(Caught(S)), "errors"), "db_error")

\* The end of a path of process_config: the exception in flight goes to the
\* caller; otherwise the path's counter is incremented.
Counting(S, counter, outcome) ==
    IF Raised(S) THEN S ELSE Return(IncStat(S, counter), outcome)

\* call_gemini raised `call`: log a rejection, commit.
Rejected(S, call) ==
    Counting(commit(log_ingestion(S, "rejected", NULL_ID, FALSE)),
             "errors", call)

\* No schedule entries, logged and committed with the taxonomy left alone.
Flagged_LogOnly(S, taxonomy_ids) ==
    Counting(commit(log_ingestion(S, "flagged", NULL_ID, FALSE)),
             "configs_skipped", "flagged")

\* No schedule entries: log 'flagged', mark the taxonomy rows 'skipped'.
Flagged(S, taxonomy_ids) ==
    Counting(
        commit(update_taxonomy_status(
                  log_ingestion(S, "flagged", NULL_ID, FALSE),
                  taxonomy_ids, NULL_ID, "skipped")),
        "configs_skipped", "flagged")

\* The rest that logs every config as new.
PersistRest_LogsNew(B, config_id, is_existing, taxonomy_ids, fluids) ==
    IF B.raised = "psycopg2.Error" THEN DbError(B)
    ELSE IF Raised(B) THEN B
    ELSE Counting(
            commit(log_ingestion(
                update_taxonomy_status(
                    create_vehicle_applications(
                        insert_fluid_specs(B, config_id, fluids),
                        config_id, taxonomy_ids),
                    taxonomy_ids, config_id, "extracted"),
                "loaded", config_id, FALSE)),
            "configs_processed", "loaded")

\* The rest that commits the schedule rows and fluid specs on their own.
PersistRest_CommitsEarly(B, config_id, is_existing, taxonomy_ids, fluids) ==
    IF B.raised = "psycopg2.Error" THEN DbError(B)
    ELSE IF Raised(B) THEN B
    ELSE Counting(
            commit(log_ingestion(
                update_taxonomy_status(
                    create_vehicle_applications(
                        commit(insert_fluid_specs(B, config_id, fluids)),
                        config_id, taxonomy_ids),
                    taxonomy_ids, config_id, "extracted"),
                "loaded", config_id, is_existing)),
            "configs_processed", "loaded")

\* From "Insert fluid specs" to the commit, B being the state after
\* insert_schedule_entries.
PersistRest(B, config_id, is_existing, taxonomy_ids, fluids) ==
    IF B.raised = "psycopg2.Error" THEN DbError(B)
    ELSE IF Raised(B) THEN B
    ELSE Counting(
            commit(log_ingestion(
                update_taxonomy_status(
                    create_vehicle_applications(
                        insert_fluid_specs(B, config_id, fluids),
                        config_id, taxonomy_ids),
                    taxonomy_ids, config_id, "extracted"),
                "loaded", config_id, is_existing)),
            "configs_processed", "loaded")

\* From "Insert schedule entries" on, A being the state after
\* find_or_create_powertrain_config.
Persist(A, taxonomy_ids, entries, fluids) ==
    IF Raised(A) THEN DbError(A)
    ELSE PersistRest(
            insert_schedule_entries(
                [A EXCEPT !.config_id = A.ret, !.is_existing = A.ret2],
                A.ret, entries),
            A.ret, A.ret2, taxonomy_ids, fluids)

\* process_config from "Parse response" on.
Parsed(S, config, gemini_data, entries, fluids) ==
    IF entries = <<>> THEN Flagged(S, config.taxonomy_ids)
    ELSE Persist(find_or_create_powertrain_config(S, config, gemini_data),
                 config.taxonomy_ids, entries, fluids)

\* process_config(config, index, total), given what call_gemini does for
\* this config (call: "ok" or the exception it raises; gemini_data: the
\* parsed answer when "ok").  An exception that no except clause of
\* process_config takes is left in S.raised for the caller.
\* self.call_gemini(prompt, max_tokens=max_tok) is reached.
Requested(S) == [S EXCEPT !.called = TRUE]

\* process_config from "Call Gemini" on.
FromCall(S, config, call, gemini_data) ==
    IF call # "ok" THEN Rejected(S, call)
    ELSE Parsed(S, config, gemini_data,
                JsonGet(gemini_data, "schedule_entries", <<>>),
                JsonGet(gemini_data, "fluid_specifications", <<>>))

\* process_config that does not test self.dry_run.
process_config_NoDryRun(S, config, call, gemini_data) ==
    FromCall(Requested(S), config, call, gemini_data)

process_config(S, config, call, gemini_data) ==
    IF S.dry_run THEN Return(S, "dry_run")
    ELSE FromCall(Requested(S), config, call, gemini_data)

\* run() without its except clause: the exception goes on to the caller.
Fatal_Uncaught(R) == R

\* except Exception in run() that counts the error and does not roll back.
Fatal_NoRollback(R) ==
    IF Raised(R) THEN Return(IncStat(Caught(R), "errors"), "fatal") ELSE R

\* except Exception in run() that rolls back and counts nothing.
Fatal_NotCounted(R) ==
    IF Raised(R) THEN Return(rollback(Caught(R)), "fatal") ELSE R

\* except Exception in run(): rollback, count an error.
Fatal(R) ==
    IF Raised(R) THEN Return(IncStat(rollback(Caught(R)), "errors"), "fatal")
    ELSE R

\* The body of run()'s loop for one config.
RunOne(S, config, call, gemini_data) ==
    Fatal(process_config(S, config, call, gemini_data))

\* ------------------------------------------------------------------------
\* Get pending configs
\* ------------------------------------------------------------------------

\* ORDER BY engine_code, MIN(make): the order of the strings used here.
StrRank(v) ==
    CASE v = "E0" -> 0
      [] v = "E1" -> 1
      [] v = "HONDA" -> 0
      [] v = "VOLVO" -> 1
      [] OTHER -> 2

\* The WHERE clause without schedule_status = 'pending'.
PendingRows_AnyStatus(store, make) ==
    {id \in TaxIds : Truthy(make) => Upper(Taxonomy[id].make) = Upper(make)}

\* The rows the WHERE clause keeps.
PendingRows(store, make) ==
    {id \in TaxIds :
        /\ store.taxonomy[id].schedule_status = "pending"
        /\ Truthy(make) => Upper(Taxonomy[id].make) = Upper(make)}

GroupKey(id) ==
    <<Taxonomy[id].engine_code, Taxonomy[id].transmission_type,
      Taxonomy[id].drive_type>>

\* One result row per GROUP BY key.
PendingGroups(store, make) ==
    LET rows == PendingRows(store, make)
        Group(k) == {id \in rows : GroupKey(id) = k}
        MinMake(ids) ==
            CHOOSE m \in {Taxonomy[id].make : id \in ids} :
                \A id \in ids : StrRank(m) <= StrRank(Taxonomy[id].make)
    IN  {[engine_code |-> k[1],
          transmission_type |-> k[2],
          drive_type |-> k[3],
          make |-> MinMake(Group(k)),
          vehicle_count |-> Cardinality(Group(k)),
          taxonomy_ids |-> Group(k)] : k \in {GroupKey(id) : id \in rows}}

\* The lists get_pending_configs may return: the groups ordered by
\* engine_code, groups of one engine_code in any order.
get_pending_configs(store, make) ==
    LET groups == PendingGroups(store, make)
        n == Cardinality(groups)
    IN  {q \in [1..n -> groups] :
            /\ \A i, j \in 1..n : i # j => q[i] # q[j]
            /\ \A i, j \in 1..n :
                  i < j => StrRank(q[i].engine_code) <= StrRank(q[j].engine_code)}

\* configs[:limit]
Slice(q, limit) ==
    IF limit >= 0 THEN SubSeq(q, 1, IF limit < Len(q) THEN limit ELSE Len(q))
    ELSE SubSeq(q, 1, IF Len(q) + limit > 0 THEN Len(q) + limit ELSE 0)

\* --limit: <<>> when not given, else <<n>>.
LimitArgs == {<<>>, <<0>>, <<1>>}

\* ------------------------------------------------------------------------
\* Actions
\* ------------------------------------------------------------------------

\* The objects process_config works on, at its entry.
Entered(fail_at) ==
    [txn |-> txn, db |-> db, seq |-> seq,
     items_cache |-> items_cache, aliases_cache |-> aliases_cache,
     validation_rules |-> validation_rules,
     stats |-> stats, dry_run |-> dry_run,
     run |-> runNo + 1, fail_at |-> fail_at,
     raised |-> "none", failed_at |-> "none", wrote |-> {}, order |-> <<>>,
     outcome |-> "none", ret |-> NULL_ID, ret2 |-> FALSE,
     config_id |-> NULL_ID, is_existing |-> FALSE, called |-> FALSE]

\* call_gemini before it is called.
CallIdle ==
    [pc |-> "idle", attempt |-> 0, http_attempt |-> 0, status |-> 0,
     requests |-> 0, in_attempt |-> 0, slept |-> 0, raised |-> "none"]

\* A driver before it starts.  Times are in tenths of a second.
DriverIdle ==
    [pc |-> "idle", driver |-> "none", dry_run |-> FALSE, total |-> 0, i |-> 0,
     raised |-> FALSE, requested |-> FALSE, slept |-> 0, gaps |-> {}]

\* No function applied yet.
AppIdle == [fn |-> "none", pc |-> "idle", input |-> <<>>, out |-> <<>>]

\* The two concurrent pipeline processes, named by their --make.
Procs == {"volvo", "honda"}

\* An LLM answer without any key.
NoAnswer == CHOOSE d \in GeminiData : d.keys = {}

Init ==
    /\ db = EmptyStore
    /\ txn = db
    /\ seq = [maintenance_items |-> 1, powertrain_configs |-> 0]
    /\ items_cache = LoadItemsCache(db)
    /\ aliases_cache = LoadAliasesCache(db)
    /\ stats = [configs_processed |-> 0, configs_skipped |-> 0, errors |-> 0]
    /\ dry_run \in BOOLEAN
    /\ pc = "idle"
    /\ configs = <<>>
    /\ runNo = 0
    /\ hist = <<>>
    /\ last = [taxonomy_ids |-> {}, before |-> db.taxonomy, call |-> "none",
               no_entries |-> FALSE, outcome |-> "none", failed_at |-> "none",
               wrote |-> {}, order |-> <<>>, config_id |-> NULL_ID,
               is_existing |-> FALSE, called |-> FALSE]
    /\ procs = [p \in Procs |->
                  [pc |-> "idle", configs |-> <<>>, S |-> Entered("none"),
                   gemini_data |-> NoAnswer]]
    /\ cg = CallIdle
    /\ rl = DriverIdle
    /\ app = AppIdle

\* run(make, limit) up to the loop: select the pending configs.
Run(make, limit) ==
    /\ pc = "idle"
    /\ \E q \in get_pending_configs(txn, make) :
          LET selected == IF limit # <<>> /\ limit[1] # 0
                          THEN Slice(q, limit[1]) ELSE q
          IN  /\ configs' = selected
              /\ pc' = IF selected = <<>> THEN "idle" ELSE "loop"
    /\ UNCHANGED <<db, txn, seq, items_cache, aliases_cache, stats, dry_run,
                   runNo, hist, last, procs>>
    /\ UNCHANGED auxVars

\* The objects as the iteration leaves them, and the history of it.  An
\* exception that run() does not catch ends run().
Returned(R, config, call, gemini_data) ==
    /\ db' = R.db
    /\ txn' = R.txn
    /\ seq' = R.seq
    /\ items_cache' = R.items_cache
    /\ stats' = R.stats
    /\ hist' = Append(hist, R.outcome)
    /\ pc' = IF Raised(R) THEN "crashed" ELSE pc
    /\ last' = [taxonomy_ids |-> config.taxonomy_ids,
                before |-> txn.taxonomy,
                call |-> call,
                no_entries |->
                    /\ call = "ok"
                    /\ JsonGet(gemini_data, "schedule_entries", <<>>) = <<>>,
                outcome |-> R.outcome,
                failed_at |-> R.failed_at,
                wrote |-> R.wrote,
                order |-> R.order,
                config_id |-> R.config_id,
                is_existing |-> R.is_existing,
                called |-> R.called]

\* One iteration of run()'s loop.
Iterate(call, gemini_data, fail_at) ==
    /\ pc = "loop"
    /\ configs # <<>>
    /\ runNo < MaxRuns
    /\ Returned(RunOne(Entered(fail_at), Head(configs), call, gemini_data),
                Head(configs), call, gemini_data)
    /\ runNo' = runNo + 1
    /\ configs' = Tail(configs)
    /\ UNCHANGED <<aliases_cache, dry_run, procs>>
    /\ UNCHANGED auxVars

\* The LLM answers with parseable JSON.
ProcessConfigOk ==
    \E gemini_data \in GeminiData, fail_at \in FailPoints :
        Iterate("ok", gemini_data, fail_at)

\* call_gemini raises.
ProcessConfigCallFails ==
    \E call \in CallOutcomes \ {"ok"}, fail_at \in {"none", "log_ingestion", "commit"} :
        Iterate(call, NoAnswer, fail_at)

\* run() leaves its loop and returns.
Finish ==
    /\ pc = "loop"
    /\ configs = <<>>
    /\ pc' = "idle"
    /\ UNCHANGED <<db, txn, seq, items_cache, aliases_cache, stats, dry_run,
                   configs, runNo, hist, last, procs>>
    /\ UNCHANGED auxVars

Next ==
    \/ \E make \in MakeArgs, limit \in LimitArgs : Run(make, limit)
    \/ ProcessConfigOk
    \/ ProcessConfigCallFails
    \/ Finish

Spec == Init /\ [][Next]_vars

\* ------------------------------------------------------------------------
\* Two pipeline processes, each with its own connection and its own --make
\* ------------------------------------------------------------------------

\* What a connection at READ COMMITTED sees at its next statement: the
\* store as committed now, with the connection's own uncommitted writes
\* (what `mine` holds beyond `base`, the committed store it was taken from).
Overlay(now, mine, base) ==
    [taxonomy |-> [id \in TaxIds |->
                     IF mine.taxonomy[id] # base.taxonomy[id]
                     THEN mine.taxonomy[id] ELSE now.taxonomy[id]],
     powertrain_configs |->
        now.powertrain_configs \cup (mine.powertrain_configs \ base.powertrain_configs),
     maintenance_items |->
        now.maintenance_items \cup (mine.maintenance_items \ base.maintenance_items),
     maintenance_schedules |->
        now.maintenance_schedules \o
            SubSeq(mine.maintenance_schedules,
                   Len(base.maintenance_schedules) + 1,
                   Len(mine.maintenance_schedules)),
     fluid_specifications |->
        now.fluid_specifications \cup
            (mine.fluid_specifications \ base.fluid_specifications),
     vehicle_applications |->
        now.vehicle_applications \cup
            (mine.vehicle_applications \ base.vehicle_applications),
     gemini_ingestion_log |->
        now.gemini_ingestion_log \o
            SubSeq(mine.gemini_ingestion_log,
                   Len(base.gemini_ingestion_log) + 1,
                   Len(mine.gemini_ingestion_log)),
     writes |-> now.writes \cup (mine.writes \ base.writes)]

\* The objects of process p at its next statement.
Resumed(S) ==
    [S EXCEPT !.txn = Overlay(db, S.txn, S.db), !.db = db, !.seq = seq]

\* The objects of process p at the entry of process_config.
ProcEntered(S) ==
    [Resumed(S) EXCEPT !.run = runNo + 1, !.fail_at = "none",
                       !.raised = "none", !.failed_at = "none", !.wrote = {},
                       !.order = <<>>,
                       !.outcome = "none", !.ret = NULL_ID, !.ret2 = FALSE,
                       !.config_id = NULL_ID, !.is_existing = FALSE]

\* The LLM answers of the two-process runs: a transmission code or none,
\* one schedule entry that matches a cached item, one fluid.
ProcAnswers ==
    {d \in GeminiData :
        /\ d.keys = AllKeys
        /\ d.powertrain.transmission_code \in {NULL, "T1"}
        /\ d.schedule_entries = <<Entry(OIL_CAP, NullName)>>
        /\ d.fluid_specifications # <<>>}

ProcUnchanged ==
    UNCHANGED <<txn, items_cache, aliases_cache, stats, dry_run, pc, configs,
                hist, last, auxVars>>

\* Process p: run(make = p) up to the loop.
ProcRun(p) ==
    /\ procs[p].pc = "idle"
    /\ \E q \in get_pending_configs(db, p) :
          procs' = [procs EXCEPT ![p].configs = q,
                                 ![p].pc = IF q = <<>> THEN "done" ELSE "loop"]
    /\ UNCHANGED <<db, seq, runNo>>
    /\ ProcUnchanged

\* Process p: process_config up to and including
\* find_or_create_powertrain_config, for the answer gemini_data.
ProcFind(p, gemini_data) ==
    /\ procs[p].pc = "loop"
    /\ procs[p].configs # <<>>
    /\ procs' = [procs EXCEPT
                    ![p].pc = "found",
                    ![p].gemini_data = gemini_data,
                    ![p].S = find_or_create_powertrain_config(
                                ProcEntered(procs[p].S),
                                Head(procs[p].configs), gemini_data)]
    /\ seq' = procs'[p].S.seq
    /\ runNo' = runNo + 1
    /\ UNCHANGED db
    /\ ProcUnchanged

\* Process p: the rest of process_config, to its commit.
ProcPersist(p) ==
    /\ procs[p].pc = "found"
    /\ procs' = [procs EXCEPT
                    ![p].pc = "loop",
                    ![p].configs = Tail(@),
                    ![p].S = Fatal(Persist(
                                Resumed(procs[p].S),
                                Head(procs[p].configs).taxonomy_ids,
                                procs[p].gemini_data.schedule_entries,
                                procs[p].gemini_data.fluid_specifications))]
    /\ db' = procs'[p].S.db
    /\ seq' = procs'[p].S.seq
    /\ UNCHANGED runNo
    /\ ProcUnchanged

\* Process p: run() leaves its loop.
ProcFinish(p) ==
    /\ procs[p].pc = "loop"
    /\ procs[p].configs = <<>>
    /\ procs' = [procs EXCEPT ![p].pc = "done"]
    /\ UNCHANGED <<db, seq, runNo>>
    /\ ProcUnchanged

InitConc == Init /\ dry_run = FALSE

NextConc ==
    \E p \in Procs :
        \/ ProcRun(p)
        \/ \E gemini_data \in ProcAnswers : ProcFind(p, gemini_data)
        \/ ProcPersist(p)
        \/ ProcFinish(p)

SpecConc == InitConc /\ [][NextConc]_vars

\* ------------------------------------------------------------------------
\* call_gemini(prompt, retries = 2), every HTTP request returning
\* ------------------------------------------------------------------------

\* call_gemini's parameter default and locals.
retries == 2

max_http_retries == 5

backoff_base == 2

\* time.sleep(2) before the request is issued again after a parse failure.
PARSE_RETRY_SLEEP == 2

\* The HTTP statuses a request may return: success, the three that are
\* retried, and two that are not.
HttpStatuses == {200, 429, 500, 503, 400, 404}

\* A test that takes every error status for one to retry.
Retried_AnyError(status) == status >= 400

\* if resp.status_code in (429, 500, 503)
Retried(status) == status \in {429, 500, 503}

\* A loop over http_attempt that never runs out.
HttpLoopOn_Forever(http_attempt) == TRUE

\* for http_attempt in range(max_http_retries): whether the loop has
\* another iteration after http_attempt.
HttpLoopOn(http_attempt) == http_attempt + 1 < max_http_retries

\* for attempt in range(1, retries + 1), if attempt < retries.
ParseLoopOn(attempt) == attempt < retries

RECURSIVE Pow2(_)
Pow2(n) == IF n = 0 THEN 1 ELSE 2 * Pow2(n - 1)

\* What the body of the response turns out to be: a candidate text that
\* _extract_json parses, one it does not, or a body without candidates.
Bodies == {"json", "not_json", "no_candidates"}

AuxUnchanged ==
    UNCHANGED <<db, txn, seq, items_cache, aliases_cache, stats, dry_run, pc,
                configs, runNo, hist, last, procs>>

\* The call: enter the first outer attempt.
CallGemini ==
    /\ cg.pc = "idle"
    /\ cg' = [cg EXCEPT !.pc = "post", !.attempt = 1]
    /\ AuxUnchanged
    /\ UNCHANGED <<rl, app>>

\* requests.post returns with `status`; on a retried status sleep
\* backoff_base * 2 ** http_attempt and go on with the inner loop.
Post(status) ==
    /\ cg.pc = "post"
    /\ cg' = IF Retried(status)
             THEN [cg EXCEPT
                     !.status = status,
                     !.requests = @ + 1,
                     !.in_attempt = @ + 1,
                     !.slept = @ + backoff_base * Pow2(cg.http_attempt),
                     !.http_attempt = @ + 1,
                     !.pc = IF HttpLoopOn(cg.http_attempt)
                            THEN "post" ELSE "raise_for_status"]
             ELSE [cg EXCEPT
                     !.status = status,
                     !.requests = @ + 1,
                     !.in_attempt = @ + 1,
                     !.pc = "raise_for_status"]
    /\ AuxUnchanged
    /\ UNCHANGED <<rl, app>>

\* resp.raise_for_status()
RaiseForStatus ==
    /\ cg.pc = "raise_for_status"
    /\ cg' = IF cg.status >= 400
             THEN [cg EXCEPT !.pc = "raised", !.raised = "HTTPError"]
             ELSE [cg EXCEPT !.pc = "parse"]
    /\ AuxUnchanged
    /\ UNCHANGED <<rl, app>>

\* resp.json(), the candidate text, _extract_json.
ParseBody(body) ==
    /\ cg.pc = "parse"
    /\ cg' = CASE body = "json" -> [cg EXCEPT !.pc = "returned"]
               [] body = "no_candidates" ->
                    [cg EXCEPT !.pc = "raised", !.raised = "ValueError"]
               [] OTHER ->
                    IF ParseLoopOn(cg.attempt)
                    THEN [cg EXCEPT !.pc = "post",
                                    !.attempt = @ + 1,
                                    !.http_attempt = 0,
                                    !.in_attempt = 0,
                                    !.slept = @ + PARSE_RETRY_SLEEP]
                    ELSE [cg EXCEPT !.pc = "raised", !.raised = "ValueError"]
    /\ AuxUnchanged
    /\ UNCHANGED <<rl, app>>

InitCall == Init /\ dry_run = FALSE

NextCall ==
    \/ CallGemini
    \/ \E status \in HttpStatuses : Post(status)
    \/ RaiseForStatus
    \/ \E body \in Bodies : ParseBody(body)

\* Every HTTP request returns and the interpreter goes on: weak fairness.
SpecCall == InitCall /\ [][NextCall]_vars /\ WF_vars(NextCall)

\* ------------------------------------------------------------------------
\* What an observer of the database sees
\* ------------------------------------------------------------------------

\* The invocations of process_config so far, by number.
Invocations == 1..Len(hist)

\* The committed ingestion-log rows that invocation r appended.
LogRows(r) ==
    {i \in DOMAIN db.gemini_ingestion_log : db.gemini_ingestion_log[i].run = r}

\* The tables in which a write of invocation r is committed.
Durable(r) == {w[2] : w \in {x \in db.writes : x[1] = r}}

\* The outcomes the claim C1 lists: each is to leave one log row.
LoggedOutcomes ==
    {"loaded", "flagged", "HTTPError", "ValueError", "Exception", "db_error"}

\* The outcomes in which process_config failed for its config.
FailedOutcomes ==
    {"HTTPError", "ValueError", "Exception", "db_error", "fatal"}

\* ------------------------------------------------------------------------
\* C1
\* ------------------------------------------------------------------------

\* C1 (as the specification states it): every non-dry-run invocation of
\* process_config that ends loaded, flagged, with an HTTP failure, with
\* unparseable JSON or with a database error in the persistence steps has
\* exactly one ingestion-log row committed for it.
C1_ExactlyOneLogRow ==
    \A r \in Invocations :
        hist[r] \in LoggedOutcomes => Cardinality(LogRows(r)) = 1

\* ------------------------------------------------------------------------
\* C2
\* ------------------------------------------------------------------------

\* What holds of the latest invocation's writes in the committed store.
AllOrNothing ==
    runNo > 0 =>
        /\ Durable(runNo) \in {{}, last.wrote}
        /\ last.outcome \in {"db_error", "fatal"} => Durable(runNo) = {}
        /\ last.outcome = "loaded" =>
              /\ Durable(runNo) = last.wrote
              /\ {"gemini_ingestion_log", "nhtsa_vehicle_taxonomy"}
                    \subseteq last.wrote

\* What a step leaves of the earlier invocations' writes.
EarlierWritesKept == \A r \in 1..runNo : Durable(r)' = Durable(r)

\* C2: the committed store holds all of an invocation's writes or none of
\* them (none when it failed in persistence, all when it ended loaded), and
\* no later step changes which of an earlier invocation's writes are
\* committed: a later commit never makes a failed invocation's writes durable.
C2_AtomicCommit == [](AllOrNothing) /\ [][EarlierWritesKept]_vars

\* An invocation that failed after writing, followed by one that committed
\* rows in all six tables.
C2_Witness ==
    /\ runNo = 2
    /\ hist[1] = "fatal"
    /\ hist[2] = "loaded"
    /\ Durable(1) = {}
    /\ Durable(2) = {"powertrain_configs", "maintenance_schedules",
                     "fluid_specifications", "vehicle_applications",
                     "nhtsa_vehicle_taxonomy", "gemini_ingestion_log"}

\* ------------------------------------------------------------------------
\* C3
\* ------------------------------------------------------------------------

\* The taxonomy rows a list of configs covers.
Selected(q) == UNION {q[i].taxonomy_ids : i \in DOMAIN q}

\* The rows of the latest invocation's config that the filter `make` admits.
Admitted(make) ==
    {id \in last.taxonomy_ids :
        Truthy(make) => Upper(Taxonomy[id].make) = Upper(make)}

\* C3: after process_config failed for a config (the LLM call raised, or a
\* database error in whatever statement), every taxonomy row of the config
\* is as it was before the invocation, in the committed store and in the
\* connection's view, its status is 'pending', and whatever the next
\* get_pending_configs returns covers the row.
C3_FailedStaysPending ==
    (runNo > 0 /\ last.outcome \in FailedOutcomes) =>
        /\ \A id \in last.taxonomy_ids :
              /\ db.taxonomy[id] = last.before[id]
              /\ txn.taxonomy[id] = last.before[id]
              /\ db.taxonomy[id].schedule_status = "pending"
        /\ \A make \in MakeArgs :
              \A q \in get_pending_configs(txn, make) :
                  Admitted(make) \subseteq Selected(q)

\* The log statement failed after the taxonomy rows were updated.
C3_Witness ==
    /\ runNo > 0
    /\ last.outcome = "fatal"
    /\ last.failed_at = "log_ingestion"
    /\ "nhtsa_vehicle_taxonomy" \in last.wrote

\* ------------------------------------------------------------------------
\* C4
\* ------------------------------------------------------------------------

\* COALESCE(transmission_code, '')
Coalesce(code) == IF code = NULL THEN "" ELSE code

\* C4 (as the specification states it): no two committed PowertrainConfig
\* rows have the same (engine_code, coalesce(transmission_code, ''),
\* drive_type).
C4_UniqueTriple ==
    \A a, b \in db.powertrain_configs :
        ( /\ a.engine_code = b.engine_code
          /\ Coalesce(a.transmission_code) = Coalesce(b.transmission_code)
          /\ a.drive_type = b.drive_type ) => a.id = b.id

\* ------------------------------------------------------------------------
\* C5
\* ------------------------------------------------------------------------

\* C5 (as the specification states it): an invocation that resolved its
\* config to an existing PowertrainConfig row (its log row says
\* is_duplicate_config) added no MaintenanceSchedule row to that config.
C5_ExistingConfigAddsNoSchedules ==
    \A i \in DOMAIN db.gemini_ingestion_log :
        db.gemini_ingestion_log[i].is_duplicate_config =>
            \A j \in DOMAIN db.maintenance_schedules :
                ~ /\ db.maintenance_schedules[j].powertrain_config_id =
                        db.gemini_ingestion_log[i].powertrain_config_id
                  /\ db.maintenance_schedules[j].run =
                        db.gemini_ingestion_log[i].run

\* ------------------------------------------------------------------------
\* C6
\* ------------------------------------------------------------------------

\* C6 (as the specification states it): every committed MaintenanceSchedule
\* row's maintenance_item_id is the id of a committed MaintenanceItem row.
C6_ScheduleItemsExist ==
    \A j \in DOMAIN db.maintenance_schedules :
        \E it \in db.maintenance_items :
            it.id = db.maintenance_schedules[j].maintenance_item_id

\* ------------------------------------------------------------------------
\* C7
\* ------------------------------------------------------------------------

\* C7 (as the specification states it): every committed PowertrainConfig
\* row has at least one committed MaintenanceSchedule row.
C7_ConfigHasSchedule ==
    \A c \in db.powertrain_configs :
        \E j \in DOMAIN db.maintenance_schedules :
            db.maintenance_schedules[j].powertrain_config_id = c.id

\* ------------------------------------------------------------------------
\* C9
\* ------------------------------------------------------------------------

\* The rows of the latest invocation's config that were pending at its entry.
WerePending ==
    {id \in last.taxonomy_ids : last.before[id].schedule_status = "pending"}

C10_ExtractedNotSelected ==
    /\ \A i \in DOMAIN configs :
          \A id \in configs[i].taxonomy_ids :
              txn.taxonomy[id].schedule_status = "pending"
    /\ runNo > 0 =>
          \A id \in last.taxonomy_ids :
              last.before[id].schedule_status = "pending"

\* Row 1 was extracted under --make volvo; a later run() without the filter
\* has queued the other row of its group, alone.
C10_Witness ==
    /\ db.taxonomy[1].schedule_status = "extracted"
    /\ pc = "loop"
    /\ \E i \in DOMAIN configs : configs[i].taxonomy_ids = {2}

\* ------------------------------------------------------------------------
\* C8
\* ------------------------------------------------------------------------

\* C8 (as the specification states it): with two processes running
\* concurrently, each filtered to its own make, no two committed
\* PowertrainConfig rows have the same (engine_code, transmission_code,
\* drive_type).
C8_ShardedNoDuplicateTriple ==
    \A a, b \in db.powertrain_configs :
        ( /\ a.engine_code = b.engine_code
          /\ a.transmission_code = b.transmission_code
          /\ a.drive_type = b.drive_type ) => a.id = b.id

\* ------------------------------------------------------------------------
\* The two driver loops and their rate-limit sleeps
\* ------------------------------------------------------------------------

\* Largest number of configs a driver loop is given.
MaxConfigs == 3

\* RATE_LIMIT_DELAY = 1.5 s, in tenths of a second.
RATE_LIMIT_DELAY == 15

\* run() of gemini_extract_schedule.py and main() of test_batch_extract.py.
Drivers == {"run", "test_batch"}

\* How process_config ends for the driver: it returns (loaded, flagged, or
\* a failure it handled itself) or it raises.
Endings == {"returns", "raises"}

\* What call_gemini had slept after its last request when it ended, in
\* tenths of a second: nothing, or the backoff after a last 429/500/503.
TrailingBackoffs == {0, 20}

\* The driver starts its loop over `total` configs.
DriverStart(driver, total, dry) ==
    /\ rl.pc = "idle"
    /\ rl.driver = "none"
    /\ rl' = [rl EXCEPT !.pc = "process", !.driver = driver,
                        !.dry_run = dry, !.total = total, !.i = 1]
    /\ AuxUnchanged
    /\ UNCHANGED <<cg, app>>

\* process_config(config, i, total): in a dry run no request is made;
\* otherwise the LLM is requested, `slept` after the previous request, and
\* the invocation returns or raises.
DriverProcess(ending, backoff) ==
    /\ rl.pc = "process"
    /\ rl' = IF rl.dry_run
             THEN [rl EXCEPT !.pc = "after", !.raised = FALSE]
             ELSE [rl EXCEPT
                     !.pc = "after",
                     !.raised = (ending = "raises"),
                     !.gaps = IF rl.requested THEN @ \cup {rl.slept} ELSE @,
                     !.requested = TRUE,
                     !.slept = backoff]
    /\ AuxUnchanged
    /\ UNCHANGED <<cg, app>>

\* The rest of the loop body.  run(): the except clause, then the rate
\* limit.  test_batch_extract.main(): the except clause ends with
\* `continue`, so the rate limit is reached only when nothing was raised.
RateLimited(driver, raised) == driver = "run" \/ ~raised

DriverAfter ==
    /\ rl.pc = "after"
    /\ rl' = IF RateLimited(rl.driver, rl.raised) /\ ~rl.dry_run /\ rl.i < rl.total
             THEN [rl EXCEPT !.slept = @ + RATE_LIMIT_DELAY,
                             !.i = @ + 1, !.pc = "process"]
             ELSE IF rl.i < rl.total
             THEN [rl EXCEPT !.i = @ + 1, !.pc = "process"]
             ELSE [rl EXCEPT !.pc = "done"]
    /\ AuxUnchanged
    /\ UNCHANGED <<cg, app>>

InitRate == Init /\ dry_run = FALSE

NextRate ==
    \/ \E driver \in Drivers, total \in 1..MaxConfigs, dry \in BOOLEAN :
          DriverStart(driver, total, dry)
    \/ \E ending \in Endings, backoff \in TrailingBackoffs :
          DriverProcess(ending, backoff)
    \/ DriverAfter

SpecRate == InitRate /\ [][NextRate]_vars

\* ------------------------------------------------------------------------
\* C11
\* ------------------------------------------------------------------------

CallEnded == cg.pc \in {"returned", "raised"}

\* C11: call_gemini issues at most max_http_retries (5) HTTP requests in
\* each outer attempt, makes at most `retries` (2) outer attempts, hence at
\* most 10 requests, and it ends, returning or raising.
C11_CallTerminates ==
    /\ [](/\ cg.in_attempt <= max_http_retries
          /\ cg.attempt <= retries
          /\ cg.requests <= retries * max_http_retries)
    /\ <>CallEnded

\* The call ended after the tenth request.
C11_Witness ==
    /\ CallEnded
    /\ cg.requests = retries * max_http_retries

\* ------------------------------------------------------------------------
\* C12
\* ------------------------------------------------------------------------

\* The queue of run(): sorted by engine_code, no config twice.
QueueInOrder ==
    \A i, j \in DOMAIN configs :
        i < j => /\ StrRank(configs[i].engine_code) <= StrRank(configs[j].engine_code)
                 /\ configs[i].taxonomy_ids \cap configs[j].taxonomy_ids = {}

\* A step that attempts a config attempts the head of the queue and leaves
\* the rest, in the loop, with no transaction open; a failed attempt is
\* counted.  The queue changes in the loop by such a step only.
AttemptsHead ==
    /\ runNo' # runNo =>
          /\ runNo' = runNo + 1
          /\ last'.taxonomy_ids = Head(configs).taxonomy_ids
          /\ configs' = Tail(configs)
          /\ pc' = "loop"
          /\ txn' = db'
          /\ last'.outcome \in FailedOutcomes =>
                stats'.errors = stats.errors + 1
    /\ (pc = "loop" /\ configs' # configs) => runNo' = runNo + 1

\* The invocations the model still has room for.
Room == MaxRuns - runNo

\* In the loop there is always a next step: the attempt of the head of the
\* queue, whatever the earlier attempts did, or the end of run() when the
\* queue is empty.  run() is never left but by its end.
LoopGoesOn ==
    /\ pc \in {"idle", "loop"}
    /\ (pc = "loop" /\ configs # <<>> /\ Room > 0) =>
          ENABLED (ProcessConfigOk \/ ProcessConfigCallFails)
    /\ (pc = "loop" /\ configs = <<>>) => ENABLED Finish

\* C12: run() attempts the selected configs one by one in the order
\* returned (sorted by engine_code), each once; an attempt that fails is
\* rolled back and counted and the loop goes on with the next config.  Every
\* step of the loop shortens the queue by its head or ends run(), and a step
\* is always possible, so every returning run() reaches its end.
C12_EveryConfigAttempted ==
    /\ [](QueueInOrder /\ LoopGoesOn)
    /\ [][AttemptsHead]_vars

\* A run() of two configs that has ended; the first attempt failed in a
\* database statement, the second was loaded.
C12_Witness ==
    /\ pc = "idle"
    /\ runNo = 2
    /\ configs = <<>>
    /\ hist = <<"fatal", "loaded">>
    /\ stats.errors = 1
    /\ stats.configs_processed = 1
    /\ last.taxonomy_ids # {4}

\* ------------------------------------------------------------------------
\* C13
\* ------------------------------------------------------------------------

\* C13 (as the specification states it): in a non-dry run the driver has
\* slept at least RATE_LIMIT_DELAY between the LLM requests of any two
\* configs processed one after the other, whether the earlier one returned
\* or raised.
C13_RateLimitBetweenConfigs ==
    \A gap \in rl.gaps : gap >= RATE_LIMIT_DELAY

\* ------------------------------------------------------------------------
\* Response text and json.loads
\*
\* A text is a sequence of units: each character that the extractor, the
\* regular expressions or the JSON grammar tell apart ({ } [ ] , : " \ `,
\* space, newline) is a unit of its own, and a run of other characters (a
\* word, a number) is one unit.  A JSON value is [t |-> tag, v |-> content]:
\* "s" a string (its units), "n" a number or null, "a" a list, "o" a dict
\* (<<key, value>> pairs in insertion order).
\* ------------------------------------------------------------------------

\* A result that is an exception (or None).
Failed == [ok |-> FALSE, val |-> NULL, pos |-> 0]

\* `for c in text:` over text[lo..hi], the locals of loop `loop` being st
\* before and the result after.  The text is halved, and st is evaluated
\* (its DOMAIN taken) before the loop goes on, to keep the evaluation
\* shallow.
RECURSIVE ForEach(_, _, _, _, _)

\* json.loads, scanning, one unit on: whitespace between tokens is skipped,
\* a string runs to its closing quote with \" and \\ as its escapes and no
\* raw newline in it, and a word outside a string is a literal or an error.
LexStep(st, c) ==
    IF ~st.ok THEN st
    ELSE IF st.escape
    THEN IF c \in {"\"", "\\"}
         THEN [st EXCEPT !.cur = Append(@, c), !.escape = FALSE]
         ELSE [st EXCEPT !.ok = FALSE]
    ELSE IF st.in_str
    THEN CASE c = "\"" ->
                [st EXCEPT !.toks = Append(@, [t |-> "s", v |-> st.cur]),
                           !.in_str = FALSE, !.cur = <<>>]
           [] c = "\\" -> [st EXCEPT !.escape = TRUE]
           [] c = "\n" -> [st EXCEPT !.ok = FALSE]
           [] OTHER -> [st EXCEPT !.cur = Append(@, c)]
    ELSE CASE c \in Whitespace -> st
           [] c = "\"" -> [st EXCEPT !.in_str = TRUE]
           [] c \in {"{", "}", "[", "]", ",", ":"} ->
                [st EXCEPT !.toks = Append(@, [t |-> "p", v |-> c])]
           [] c \in {"5000", "7500", "null"} ->
                [st EXCEPT !.toks = Append(@, [t |-> "n", v |-> c])]
           [] OTHER -> [st EXCEPT !.ok = FALSE]

\* Token i of toks is the punctuation c.
IsPunct(toks, i, c) == i <= Len(toks) /\ toks[i].t = "p" /\ toks[i].v = c

RECURSIVE ParseValue(_, _), ParseItems(_, _, _, _), ItemDone(_, _, _, _, _)

\* json.loads, the grammar: the value that starts at token i.
ParseValue(toks, i) ==
    IF i > Len(toks) THEN Failed
    ELSE IF toks[i].t \in {"s", "n"}
    THEN [ok |-> TRUE, val |-> toks[i], pos |-> i + 1]
    ELSE IF toks[i].v = "{"
    THEN IF IsPunct(toks, i + 1, "}")
         THEN [ok |-> TRUE, val |-> [t |-> "o", v |-> <<>>], pos |-> i + 2]
         ELSE ParseItems(toks, i + 1, "o", <<>>)
    ELSE IF toks[i].v = "["
    THEN IF IsPunct(toks, i + 1, "]")
         THEN [ok |-> TRUE, val |-> [t |-> "a", v |-> <<>>], pos |-> i + 2]
         ELSE ParseItems(toks, i + 1, "a", <<>>)
    ELSE Failed

\* The members of a dict ("key": value) or the elements of a list, from
\* token i on, `acc` being those read so far.
ParseItems(toks, i, kind, acc) ==
    IF kind = "a"
    THEN ItemDone(toks, kind, acc, NULL, ParseValue(toks, i))
    ELSE IF i <= Len(toks) /\ toks[i].t = "s" /\ IsPunct(toks, i + 1, ":")
         THEN ItemDone(toks, kind, acc, toks[i].v, ParseValue(toks, i + 2))
         ELSE Failed

\* After an item: a comma and the next item, or the closing bracket.  A
\* repeated key keeps its place and takes the later value.
ItemDone(toks, kind, acc, key, r) ==
    IF ~r.ok THEN Failed
    ELSE IF IsPunct(toks, r.pos, ",")
    THEN ParseItems(toks, r.pos + 1, kind,
                    IF kind = "a" THEN Append(acc, r.val)
                    ELSE DictSet(acc, key, r.val))
    ELSE IF IsPunct(toks, r.pos, IF kind = "a" THEN "]" ELSE "}")
    THEN [ok |-> TRUE,
          val |-> [t |-> kind,
                   v |-> IF kind = "a" THEN Append(acc, r.val)
                         ELSE DictSet(acc, key, r.val)],
          pos |-> r.pos + 1]
    ELSE Failed

\* json.loads(s): the value the whole of s denotes, or JSONDecodeError.
json_loads(s) ==
    LET st == ForEach("lex", s,
                      [ok |-> TRUE, toks |-> <<>>, in_str |-> FALSE,
                       cur |-> <<>>, escape |-> FALSE],
                      1, Len(s))
        r == ParseValue(st.toks, 1)
    IN  IF st.ok /\ ~st.in_str /\ r.ok /\ r.pos = Len(st.toks) + 1
        THEN r ELSE Failed

\* ------------------------------------------------------------------------
\* _extract_json and _repair_truncated_json
\* ------------------------------------------------------------------------

\* The backtick, which a TLA+ string cannot hold, as a unit of a text.
Backtick == "BACKTICK"

\* re.sub(r"```(?:json)?\s*", "", text), one unit on: every three
\* backticks in a row go, with a "json" right after them and the whitespace
\* that follows.  `ticks` backticks are held back until it is known whether
\* they make three; `after` says what may still belong to the match.
FenceStep(st, c) ==
    IF c = Backtick
    THEN IF st.ticks = 2
         THEN [st EXCEPT !.ticks = 0, !.after = "fence"]
         ELSE [st EXCEPT !.ticks = @ + 1]
    ELSE IF st.ticks = 0 /\ st.after = "fence" /\ c = "json"
    THEN [st EXCEPT !.after = "json"]
    ELSE IF st.ticks = 0 /\ st.after \in {"fence", "json", "space"}
            /\ c \in Whitespace
    THEN [st EXCEPT !.after = "space"]
    ELSE [out |-> st.out \o [n \in 1..st.ticks |-> Backtick] \o <<c>>,
          ticks |-> 0, after |-> "none"]

\* re.sub(r",\s*([}\]])", r"\1", s), one unit on: a comma, and the
\* whitespace after it, goes when a } or ] follows, wherever in the text it
\* stands.  `held` is a comma with its whitespace, not yet written.
CommaStep(st, c) ==
    IF c = ","
    THEN [out |-> st.out \o st.held, held |-> <<",">>]
    ELSE IF st.held # <<>> /\ c \in Whitespace
    THEN [st EXCEPT !.held = Append(@, c)]
    ELSE IF st.held # <<>> /\ c \in {"}", "]"}
    THEN [out |-> Append(st.out, c), held |-> <<>>]
    ELSE [out |-> st.out \o st.held \o <<c>>, held |-> <<>>]

\* The loops of _repair_truncated_json, one character on: whether the text
\* is inside a string, and the closers of the brackets that are open
\* outside strings, innermost last.
RepairStep(st, ch) ==
    IF st.escape THEN [st EXCEPT !.escape = FALSE]
    ELSE IF ch = "\\" THEN [st EXCEPT !.escape = TRUE]
    ELSE IF ch = "\"" THEN [st EXCEPT !.in_str = ~@]
    ELSE IF st.in_str THEN st
    ELSE IF ch \in {"{", "["}
    THEN [st EXCEPT !.stack = Append(@, IF ch = "{" THEN "}" ELSE "]")]
    ELSE IF ch \in {"}", "]"} /\ st.stack # <<>>
    THEN [st EXCEPT !.stack = SubSeq(@, 1, Len(@) - 1)]
    ELSE st

\* The loop of _extract_json, at character i: `found` is the position of
\* the } that brings the depth back to zero, where the loop returns.
BraceStep(st, c, i) ==
    IF st.found # 0 THEN st
    ELSE IF st.escape_next THEN [st EXCEPT !.escape_next = FALSE]
    ELSE IF c = "\\" THEN [st EXCEPT !.escape_next = TRUE]
    ELSE IF c = "\"" THEN [st EXCEPT !.in_string = ~@]
    ELSE IF st.in_string THEN st
    ELSE IF c = "{" THEN [st EXCEPT !.depth = @ + 1]
    ELSE IF c = "}"
    THEN [st EXCEPT !.depth = @ - 1,
                    !.found = IF st.depth - 1 = 0 THEN i ELSE 0]
    ELSE st

ForEach(loop, text, st, lo, hi) ==
    IF lo > hi \/ DOMAIN st = {} THEN st
    ELSE IF lo < hi
    THEN ForEach(loop, text,
                 ForEach(loop, text, st, lo, (lo + hi) \div 2),
                 (lo + hi) \div 2 + 1, hi)
    ELSE CASE loop = "lex" -> LexStep(st, text[lo])
           [] loop = "fences" -> FenceStep(st, text[lo])
           [] loop = "commas" -> CommaStep(st, text[lo])
           [] loop = "repair" -> RepairStep(st, text[lo])
           [] OTHER -> BraceStep(st, text[lo], lo)

\* What is held back at the end of the text is written.
StripFences(s) ==
    LET st == ForEach("fences", s,
                      [out |-> <<>>, ticks |-> 0, after |-> "none"], 1, Len(s))
    IN  st.out \o [n \in 1..st.ticks |-> Backtick]

StripTrailingCommas(s) ==
    LET st == ForEach("commas", s, [out |-> <<>>, held |-> <<>>], 1, Len(s))
    IN  st.out \o st.held

\* s.find(pat), or s.rfind(pat) when `right`: the first or last position
\* where the units pat stand in s; 0 stands for -1.
Find(s, pat, right) ==
    LET places == {i \in 1..(Len(s) - Len(pat) + 1) :
                     SubSeq(s, i, i + Len(pat) - 1) = pat}
    IN  IF places = {} THEN 0
        ELSE CHOOSE i \in places :
                \A j \in places : IF right THEN i >= j ELSE i <= j

\* The second half of _repair_truncated_json: close what is open in text.
\* Strip, drop one trailing comma, append the closers innermost first,
\* strip the trailing commas left inside and parse.
CloseOpen(text) ==
    LET stack == ForEach("repair", text,
                         [in_str |-> FALSE, escape |-> FALSE, stack |-> <<>>],
                         1, Len(text)).stack
        stripped == RStrip(text)
        kept == IF stripped # <<>> /\ stripped[Len(stripped)] = ","
                THEN SubSeq(stripped, 1, Len(stripped) - 1) ELSE stripped
    IN  json_loads(StripTrailingCommas(
            kept \o [n \in 1..Len(stack) |-> stack[Len(stack) + 1 - n]]))

\* _repair_truncated_json(text): a text that ends inside a string is cut
\* back to its last "}," or else its last "}"; None (Failed) without any.
_repair_truncated_json(text) ==
    LET in_str == ForEach("repair", text,
                          [in_str |-> FALSE, escape |-> FALSE, stack |-> <<>>],
                          1, Len(text)).in_str
        last_complete == IF Find(text, <<"}", ",">>, TRUE) # 0
                         THEN Find(text, <<"}", ",">>, TRUE)
                         ELSE Find(text, <<"}">>, TRUE)
    IN  IF ~in_str THEN CloseOpen(text)
        ELSE IF last_complete = 0 THEN Failed
        ELSE CloseOpen(SubSeq(text, 1, last_complete))

\* The scan of _extract_json from brace_start: the position of the } that
\* brings the depth back to zero, 0 when the text ends before it.
MatchingBrace(clean, brace_start) ==
    ForEach("braces", clean,
            [depth |-> 0, in_string |-> FALSE, escape_next |-> FALSE,
             found |-> 0],
            brace_start, Len(clean)).found

\* json.loads(json_str), and on JSONDecodeError json.loads of the text
\* without its trailing commas.
LoadsFixed(json_str) ==
    LET strict == json_loads(json_str)
    IN  IF strict.ok THEN strict
        ELSE json_loads(StripTrailingCommas(json_str))

\* _extract_json(text): the parsed object, or the exception raised.  The
\* object runs from the first { to its matching brace; without a matching
\* brace the rest of the text is parsed, and repaired when that fails
\* (`if repaired:` takes None and the empty dict alike for a failure).
_extract_json(text) ==
    LET clean == Strip(StripFences(text))
        brace_start == Find(clean, <<"{">>, FALSE)
        end == MatchingBrace(clean, brace_start)
        fixed == LoadsFixed(SubSeq(clean, brace_start, Len(clean)))
        repaired == _repair_truncated_json(SubSeq(clean, brace_start, Len(clean)))
    IN  IF brace_start = 0 THEN Failed
        ELSE IF end # 0 THEN LoadsFixed(SubSeq(clean, brace_start, end))
        ELSE IF fixed.ok THEN fixed
        ELSE IF repaired.ok /\ repaired.val.v # <<>> THEN repaired
        ELSE Failed

\* ------------------------------------------------------------------------
\* _extract_json applied to response texts
\* ------------------------------------------------------------------------

\* The most complete entries before the one a response is cut in, and the
\* most fluid specifications of a response.
MaxEntries == 2
MaxFluids == 2

Str(u) == [t |-> "s", v |-> u]
Num(w) == [t |-> "n", v |-> w]
List(l) == [t |-> "a", v |-> l]
Dict(d) == [t |-> "o", v |-> d]

\* The characters of u[lo..hi] between the quotes of a string, as
\* json.dumps writes them.
RECURSIVE Escaped(_, _, _)
Escaped(u, lo, hi) ==
    IF lo > hi THEN <<>>
    ELSE IF lo < hi
    THEN Escaped(u, lo, (lo + hi) \div 2) \o Escaped(u, (lo + hi) \div 2 + 1, hi)
    ELSE IF u[lo] \in {"\"", "\\"} THEN <<"\\", u[lo]>> ELSE <<u[lo]>>

\* json.dumps(v), with `tc` written before the closing bracket of every dict
\* and list that is not empty (<<>>: none; a comma: a trailing comma).
RECURSIVE Serialize(_, _), SerItems(_, _, _)
Serialize(v, tc) ==
    CASE v.t = "s" -> <<"\"">> \o Escaped(v.v, 1, Len(v.v)) \o <<"\"">>
      [] v.t = "n" -> <<v.v>>
      [] v.t = "a" ->
           <<"[">> \o SerItems(v, 1, tc)
           \o (IF v.v = <<>> THEN <<>> ELSE tc) \o <<"]">>
      [] OTHER ->
           <<"{">> \o SerItems(v, 1, tc)
           \o (IF v.v = <<>> THEN <<>> ELSE tc) \o <<"}">>

SerItems(v, i, tc) ==
    IF i > Len(v.v) THEN <<>>
    ELSE (IF i > 1 THEN <<",", " ">> ELSE <<>>)
         \o (IF v.t = "a" THEN Serialize(v.v[i], tc)
             ELSE <<"\"">> \o Escaped(v.v[i][1], 1, Len(v.v[i][1])) \o <<"\"", ":", " ">>
                  \o Serialize(v.v[i][2], tc))
         \o SerItems(v, i + 1, tc)

\* Python's == on parsed JSON: dicts compare as maps, lists in order.
RECURSIVE JsonEq(_, _)
JsonEq(a, b) ==
    /\ a.t = b.t
    /\ CASE a.t \in {"s", "n"} -> a.v = b.v
         [] a.t = "a" ->
              /\ Len(a.v) = Len(b.v)
              /\ \A i \in 1..Len(a.v) : JsonEq(a.v[i], b.v[i])
         [] OTHER ->
              /\ Len(a.v) = Len(b.v)
              /\ \A i \in 1..Len(a.v) :
                   \E j \in 1..Len(b.v) :
                      /\ a.v[i][1] = b.v[j][1]
                      /\ JsonEq(a.v[i][2], b.v[j][2])

\* The n-th schedule entry and fluid specification of a response.
ScheduleEntry(n) ==
    Dict(<< <<<<"item_name">>, Str(IF n % 2 = 1 THEN <<"Oil">> ELSE <<"Belt">>)>>,
            <<<<"interval_miles">>, Num(IF n % 2 = 1 THEN "5000" ELSE "7500")>>,
            <<<<"severe_use_conditions">>,
              List(IF n % 2 = 1 THEN <<>> ELSE <<Str(<<"towing">>)>>)>> >>)

FluidSpec(n) ==
    Dict(<< <<<<"fluid_type">>,
              Str(IF n % 2 = 1 THEN <<"engine_oil">> ELSE <<"coolant">>)>>,
            <<<<"fluid_spec">>, Num("null")>> >>)

\* A response in the schema of the prompt, with f fluid specifications and
\* k schedule entries.
Response(f, k) ==
    Dict(<< <<<<"vehicle">>, Dict(<< <<<<"make">>, Str(<<"Volvo">>)>> >>)>>,
            <<<<"powertrain">>,
              Dict(<< <<<<"engine_code">>, Str(<<"B4204T">>)>> >>)>>,
            <<<<"fluid_specifications">>, List([n \in 1..f |-> FluidSpec(n)])>>,
            <<<<"schedule_entries">>, List([n \in 1..k |-> ScheduleEntry(n)])>> >>)

\* JSON objects an answer may hold: flat, nested, with a brace, with
\* escaped quotes or with a code fence inside a string, and empty.
Objects ==
    << Dict(<< <<<<"item_name">>, Str(<<"Oil">>)>> >>),
       Response(1, 1),
       Dict(<< <<<<"notes">>, Str(<<"see", " ", "{", "x">>)>> >>),
       Dict(<< <<<<"notes">>, Str(<<"say", " ", "\"", "hi", "\"">>)>> >>),
       Dict(<< <<<<"notes">>, Str(<<"use", " ", Backtick, Backtick, Backtick, " ", "here">>)>> >>),
       Dict(<< <<<<"notes">>, Str(<<"a", ",", "}">>)>>,
               <<<<"codes">>, List(<<Str(<<"A">>), Str(<<"B", ",", " ", "]">>)>>)>> >>),
       Dict(<<>>) >>

\* Prose before and after the object.
Prefixes ==
    << <<>>,
       <<"Here", " ", "is", " ", "the", " ", "schedule", ":", "\n">>,
       <<"Fill", " ", "in", " ", "{", "make", "}", ":", " ">>,
       <<"\"", "schedule", "\"", " ">> >>

Suffixes ==
    << <<>>,
       <<"\n", "Done", ".">>,
       <<" ", "}", " ", "{">>,
       <<" ", "\"">> >>

\* No fence, ```json ... ``` and ``` ... ```.
Fenced(f, text) ==
    CASE f = "json" -> <<Backtick, Backtick, Backtick, "json", "\n">> \o text \o <<"\n", Backtick, Backtick, Backtick>>
      [] f = "plain" -> <<Backtick, Backtick, Backtick, "\n">> \o text \o <<"\n", Backtick, Backtick, Backtick>>
      [] OTHER -> text

Fences == {"none", "json", "plain"}

\* What stands before a closing bracket: nothing, or a trailing comma with
\* or without whitespace after it.
TrailingCommas == << <<>>, <<",">>, <<",", " ">>, <<",", "\n", " ">> >>

\* The beginning of schedule_entries[k], up to a cut inside a string: in
\* its first value, in a later value, in a string of a list, and in a
\* description that holds "},".
CutEntries ==
    << <<"{", "\"", "item_name", "\"", ":", " ", "\"", "Bra">>,
       <<"{", "\"", "item_name", "\"", ":", " ", "\"", "Brake", "\"", ",", " ",
         "\"", "oem_description", "\"", ":", " ", "\"", "Replace", " ", "bra">>,
       <<"{", "\"", "item_name", "\"", ":", " ", "\"", "Brake", "\"", ",", " ",
         "\"", "severe_use_conditions", "\"", ":", " ", "[", "\"", "tow">>,
       <<"{", "\"", "item_name", "\"", ":", " ", "\"", "Brake", "\"", ",", " ",
         "\"", "oem_description", "\"", ":", " ", "\"", "see", " ", "{", "a",
         "}", ",", " ", "b">> >>

\* Response(f, k) cut off inside entry k: its text without the closing "]}",
\* then the cut entry.
CutResponse(f, k, cut) ==
    SubSeq(Serialize(Response(f, k), <<>>), 1,
           Len(Serialize(Response(f, k), <<>>)) - 2)
    \o (IF k > 0 THEN <<",", " ">> ELSE <<>>) \o cut

Called(kind, text, expect) ==
    /\ app.pc = "idle"
    /\ app' = [fn |-> "_extract_json", pc |-> "called",
               input |-> [kind |-> kind, text |-> text, expect |-> expect],
               out |-> <<>>]
    /\ AuxUnchanged
    /\ UNCHANGED <<cg, rl>>

\* The answer holds object j between prose p and s, in fence f.
Wrapped(j, p, s, f) ==
    Called("wrapped",
           Fenced(f, Prefixes[p] \o Serialize(Objects[j], <<>>) \o Suffixes[s]),
           Objects[j])

\* The answer is object j written with trailing commas.
WithTrailingCommas(j, tc) ==
    Called(IF tc = 1 THEN "strict" ELSE "trailing_commas",
           Serialize(Objects[j], TrailingCommas[tc]), Objects[j])

\* The answer is cut off inside a string of schedule_entries[k].
Truncated(f, k, c) ==
    Called("truncated", CutResponse(f, k, CutEntries[c]), Response(f, k))

\* text = ...; return self._extract_json(text)
Extract ==
    /\ app.pc = "called"
    /\ app.fn = "_extract_json"
    /\ app' = [app EXCEPT !.pc = "returned",
                          !.out = _extract_json(app.input.text)]
    /\ AuxUnchanged
    /\ UNCHANGED <<cg, rl>>

InitExtract == Init /\ dry_run = FALSE

NextExtract ==
    \/ \E j \in 1..Len(Objects), p \in 1..Len(Prefixes),
          s \in 1..Len(Suffixes), f \in Fences : Wrapped(j, p, s, f)
    \/ \E j \in 1..Len(Objects), tc \in 1..Len(TrailingCommas) :
          WithTrailingCommas(j, tc)
    \/ \E f \in 0..MaxFluids, k \in 0..MaxEntries, c \in 1..Len(CutEntries) :
          Truncated(f, k, c)
    \/ Extract

SpecExtract == InitExtract /\ [][NextExtract]_vars

\* ------------------------------------------------------------------------
\* Claims about _extract_json
\* ------------------------------------------------------------------------

\* _extract_json has returned or raised on an answer of this kind.
Extracted(kind) ==
    /\ app.fn = "_extract_json"
    /\ app.pc = "returned"
    /\ app.input.kind = kind

\* d.get(key, default) on a parsed dict.
GetOr(d, key, default) ==
    IF DictHas(d.v, key) THEN DictGet(d.v, key) ELSE default

\* C14: for any JSON object J, any prose before and after it and any
\* markdown fence around it, _extract_json returns exactly J.
C14_ExtractReturnsObject ==
    Extracted("wrapped") =>
        /\ app.out.ok
        /\ JsonEq(app.out.val, app.input.expect)

\* C15: for a response cut off inside a string of schedule_entries[k],
\* k >= 0, _extract_json returns an object whose schedule_entries are
\* exactly the complete entries 0..k-1 and whose vehicle, powertrain and
\* fluid_specifications are those of the response.
C15_TruncationKeepsCompleteEntries ==
    Extracted("truncated") =>
        /\ app.out.ok
        /\ JsonEq(GetOr(app.out.val, <<"schedule_entries">>, List(<<>>)),
                  GetOr(app.input.expect, <<"schedule_entries">>, List(<<>>)))
        /\ \A key \in {<<"vehicle">>, <<"powertrain">>, <<"fluid_specifications">>} :
              /\ DictHas(app.out.val.v, key)
              /\ JsonEq(DictGet(app.out.val.v, key),
                        DictGet(app.input.expect.v, key))

\* C16: for a text that is valid JSON once the commas before a closing
\* } or ] outside strings are removed, _extract_json returns exactly the
\* object of the comma-free text, every string value unchanged.
C16_TrailingCommasRepaired ==
    Extracted("trailing_commas") =>
        /\ app.out.ok
        /\ JsonEq(app.out.val, app.input.expect)

\* ------------------------------------------------------------------------
\* match_item applied to an item name, the caches loaded from a store
\* ------------------------------------------------------------------------

OL == <<"o", "l">>
LUBES == <<"l", "u", "b", "e", "s">>
BOLT == <<"b", "o", "l", "t">>
TIRE == <<"t", "i", "r", "e">>
SEAT_BELT == <<"s", "e", "a", "t", " ", "b", "e", "l", "t">>
ATF_FILTER == <<"a", "t", "f", " ", "f", "i", "l", "t", "e", "r">>
BLANK == <<" ">>

StoredItem(id, name, aliases) ==
    [id |-> id, name |-> name, name_aliases |-> aliases, category_id |-> 1,
     is_powertrain_dependent |-> FALSE]

\* The rows maintenance_items may hold: an item with an alias, an item
\* named like that alias, an item close to it, and an item whose name is
\* another's alias and whose alias is another's name.
ItemPool ==
    {StoredItem(1, OIL, <<LUBE>>), StoredItem(2, LUBE, <<>>),
     StoredItem(3, LUBES, <<Normalize(BELT)>>), StoredItem(4, BELT, <<OIL>>)}

\* The names match_item is called with.
ItemNames ==
    {NullName, BLANK, LUBE, OL, BOLT, OIL_CAP, TIRE, SEAT_BELT, ATF_FILTER}

\* The extractor after __init__ on a store that holds `items`.
Loaded(items) ==
    [Entered("none") EXCEPT
        !.txn.maintenance_items = items,
        !.db.maintenance_items = items,
        !.seq.maintenance_items = Cardinality(ItemPool),
        !.items_cache = LoadItemsCache([maintenance_items |-> items]),
        !.aliases_cache = LoadAliasesCache([maintenance_items |-> items])]

\* __init__: _load_maintenance_items
LoadItems(items) ==
    /\ app.pc = "idle"
    /\ app' = [fn |-> "match_item", pc |-> "loaded",
               input |-> [S |-> Loaded(items), item_name |-> NullName],
               out |-> <<>>]
    /\ AuxUnchanged
    /\ UNCHANGED <<cg, rl>>

\* item_id = self.match_item(item_name)
MatchItem(item_name) ==
    /\ app.pc = "loaded"
    /\ app.fn = "match_item"
    /\ app' = [app EXCEPT !.pc = "returned",
                          !.input.item_name = item_name,
                          !.out = match_item(app.input.S, item_name)]
    /\ AuxUnchanged
    /\ UNCHANGED <<cg, rl>>

InitMatch == Init /\ dry_run = FALSE

NextMatch ==
    \/ \E items \in SUBSET ItemPool : LoadItems(items)
    \/ \E item_name \in ItemNames : MatchItem(item_name)

SpecMatch == InitMatch /\ [][NextMatch]_vars

\* ------------------------------------------------------------------------
\* Claims about match_item
\* ------------------------------------------------------------------------

\* match_item has returned: its input and what it left.
Matched == app.fn = "match_item" /\ app.pc = "returned"

ItemsBefore == app.input.S.txn.maintenance_items
ItemsAfter == app.out.txn.maintenance_items
Normalized == Normalize(app.input.item_name)

\* The ids of the stored items of that normalized name, and of those that
\* carry it as an alias.
NamedSo ==
    {it.id : it \in {r \in ItemsBefore : Normalize(r.name) = Normalized}}

AliasedSo ==
    {it.id : it \in {r \in ItemsBefore :
                       \E k \in 1..Len(r.name_aliases) :
                          Normalize(r.name_aliases[k]) = Normalized}}

\* The keys of both caches with their ids, and the ratio of the input to
\* the closest of them (0 without any).
Candidates ==
    {<<Normalize(r.name), r.id>> : r \in ItemsBefore}
    \cup UNION {{<<Normalize(r.name_aliases[k]), r.id>> :
                   k \in 1..Len(r.name_aliases)} : r \in ItemsBefore}

Closest ==
    {c \in Candidates :
        \A d \in Candidates :
            ~RatioGT(Ratio(Normalized, d[1]), Ratio(Normalized, c[1]))}

\* The fuzzy step is reached: a name, and no exact name or alias match.
FuzzyStep ==
    /\ Matched
    /\ app.input.item_name # NullName
    /\ NamedSo = {}
    /\ AliasedSo = {}

\* Some candidate is at a ratio of 4/5 or more.
CloseEnough ==
    \E c \in Candidates :
        5 * Ratio(Normalized, c[1])[1] >= 4 * Ratio(Normalized, c[1])[2]

\* C17: match_item returns the item of the exact normalized name even if
\* another item carries the name as an alias, and else the item of the
\* exact normalized alias even if a fuzzy candidate exists; neither creates
\* an item.
C17_NameThenAliasThenFuzzy ==
    (Matched /\ app.input.item_name # NullName) =>
        /\ NamedSo # {} => app.out.ret \in NamedSo /\ ItemsAfter = ItemsBefore
        /\ (NamedSo = {} /\ AliasedSo # {}) =>
              app.out.ret \in AliasedSo /\ ItemsAfter = ItemsBefore

\* An exact name match where another item carries the name as an alias.
C17_Witness ==
    /\ Matched
    /\ NamedSo # {}
    /\ AliasedSo \ NamedSo # {}
    /\ app.out.ret \in NamedSo

\* C18: in the fuzzy step the closest candidate of both caches is accepted
\* iff its ratio is >= 0.80: then its id is returned and no item is
\* created; below 0.80 no existing item is returned and one is created.
C18_FuzzyThreshold ==
    FuzzyStep =>
        IF CloseEnough
        THEN /\ app.out.ret \in {c[2] : c \in Closest}
             /\ ItemsAfter = ItemsBefore
        ELSE /\ app.out.ret \notin {it.id : it \in ItemsBefore}
             /\ Cardinality(ItemsAfter \ ItemsBefore) = 1
             /\ ItemsBefore \subseteq ItemsAfter

\* The closest candidate is at exactly 0.80, and is returned.
C18_Witness ==
    /\ FuzzyStep
    /\ \E c \in Closest :
          /\ 5 * Ratio(Normalized, c[1])[1] = 4 * Ratio(Normalized, c[1])[2]
          /\ app.out.ret = c[2]
    /\ ItemsAfter = ItemsBefore

\* C19: a non-empty name without exact, alias or fuzzy (>= 0.80) match
\* does not fail: exactly one item is created, of the category of the
\* first keyword of ITEM_CATEGORY_KEYWORDS that the lowercased name
\* contains ("engine" without any), powertrain-dependent, the original name
\* its sole alias; the normalized name is cached and the new id returned.
C19_UnmatchedNameCreatesItem ==
    (FuzzyStep /\ ~CloseEnough) =>
        /\ app.out.raised = "none"
        /\ \E new \in ItemsAfter :
              /\ ItemsAfter = ItemsBefore \cup {new}
              /\ new \notin ItemsBefore
              /\ new.name = app.input.item_name
              /\ new.name_aliases = <<app.input.item_name>>
              /\ new.is_powertrain_dependent
              /\ \/ \E k \in 1..Len(ITEM_CATEGORY_KEYWORDS) :
                       /\ Contains(Lower(app.input.item_name),
                                   ITEM_CATEGORY_KEYWORDS[k][1])
                       /\ \A j \in 1..(k - 1) :
                             ~Contains(Lower(app.input.item_name),
                                       ITEM_CATEGORY_KEYWORDS[j][1])
                       /\ new.category_id =
                             DictGet(category_ids, ITEM_CATEGORY_KEYWORDS[k][2])
                 \/ /\ \A k \in 1..Len(ITEM_CATEGORY_KEYWORDS) :
                          ~Contains(Lower(app.input.item_name),
                                    ITEM_CATEGORY_KEYWORDS[k][1])
                    /\ new.category_id = DictGet(category_ids, "engine")
              /\ DictHas(app.out.items_cache, Normalized)
              /\ DictGet(app.out.items_cache, Normalized) = new.id
              /\ app.out.ret = new.id

\* A name that holds two keywords of different categories is created with
\* the category of the one declared first.
C19_Witness ==
    /\ FuzzyStep
    /\ ~CloseEnough
    /\ app.input.item_name = ATF_FILTER
    /\ \E new \in ItemsAfter \ ItemsBefore :
          new.category_id = DictGet(category_ids, "filters")

\* ------------------------------------------------------------------------
\* _validate_entry applied on its own
\* ------------------------------------------------------------------------

\* The most rules validation_rules holds.
MaxRules == 2

\* The active rows of validation_rules: a rule for an item and an action,
\* a rule for every entry, and a rule for an item with a minimum only.
RulePool ==
    {Rule("oil_change", OIL, REPLACE, <<3000>>, <<15000>>),
     Rule("any_interval", NullName, NullName, <<>>, <<15000>>),
     Rule("belt_inspection", BELT, INSPECT, <<5000>>, <<>>)}

RuleLists ==
    UNION {[1..n -> RulePool] : n \in 0..MaxRules}

\* What an entry holds: its name (equal, close or not close to a rule's),
\* its normalized action type and its interval_miles.
EntryNames == {OIL, OL, OIL_CAP, BOLT, BELT, Normalize(BELT)}
ActionTypes == {REPLACE, INSPECT}
IntervalMiles == {<<>>, <<0>>, <<2000>>, <<3000>>, <<5000>>, <<15000>>, <<20000>>}

\* __init__: _load_validation_rules
LoadRules(rules) ==
    /\ app.pc = "idle"
    /\ app' = [fn |-> "_validate_entry", pc |-> "loaded",
               input |-> [validation_rules |-> rules, item_name |-> NullName,
                          action_type |-> NullName, interval_miles |-> <<>>],
               out |-> <<>>]
    /\ AuxUnchanged
    /\ UNCHANGED <<cg, rl>>

\* needs_review, review_notes, confidence = self._validate_entry(...)
ValidateEntry(item_name, action_type, interval_miles) ==
    /\ app.pc = "loaded"
    /\ app.fn = "_validate_entry"
    /\ app' = [app EXCEPT
                 !.pc = "returned",
                 !.input.item_name = item_name,
                 !.input.action_type = action_type,
                 !.input.interval_miles = interval_miles,
                 !.out = _validate_entry(app.input.validation_rules, item_name,
                                         action_type, interval_miles, <<>>)]
    /\ AuxUnchanged
    /\ UNCHANGED <<cg, rl>>

InitValidate == Init /\ dry_run = FALSE

NextValidate ==
    \/ \E rules \in RuleLists : LoadRules(rules)
    \/ \E item_name \in EntryNames, action_type \in ActionTypes,
          interval_miles \in IntervalMiles :
          ValidateEntry(item_name, action_type, interval_miles)

SpecValidate == InitValidate /\ [][NextValidate]_vars

\* ------------------------------------------------------------------------
\* Claims about _validate_entry
\* ------------------------------------------------------------------------

\* The rule's targets admit the entry: item name absent, equal or at a
\* ratio of 4/5 or more; action type absent or equal.
AppliesTo(rule, entry) ==
    /\ \/ rule.applies_to_item_name \in {NullName, <<>>}
       \/ rule.applies_to_item_name = entry.item_name
       \/ 5 * Ratio(Lower(entry.item_name), Lower(rule.applies_to_item_name))[1]
            >= 4 * Ratio(Lower(entry.item_name),
                         Lower(rule.applies_to_item_name))[2]
    /\ \/ rule.applies_to_action_type \in {NullName, <<>>}
       \/ rule.applies_to_action_type = entry.action_type

\* The entry's interval_miles is strictly below the rule's minimum or
\* strictly above its maximum.
OutOfBounds(rule, entry) ==
    /\ entry.interval_miles # <<>>
    /\ \/ /\ rule.min_interval_miles # <<>>
          /\ entry.interval_miles[1] < rule.min_interval_miles[1]
       \/ /\ rule.max_interval_miles # <<>>
          /\ entry.interval_miles[1] > rule.max_interval_miles[1]

ViolatedRules ==
    {r \in 1..Len(app.input.validation_rules) :
        /\ AppliesTo(app.input.validation_rules[r], app.input)
        /\ OutOfBounds(app.input.validation_rules[r], app.input)}

\* C20: _validate_entry returns needs_review = true exactly when some
\* applicable rule has interval_miles strictly below its minimum or above
\* its maximum; then confidence is "low" and the notes name every violated
\* rule, joined by "; "; otherwise the notes are null and confidence "high".
C20_NeedsReviewIffViolation ==
    (app.fn = "_validate_entry" /\ app.pc = "returned") =>
        /\ app.out.needs_review <=> ViolatedRules # {}
        /\ app.out.needs_review =>
              /\ app.out.confidence = "low"
              /\ \A r \in ViolatedRules :
                    \E n \in 1..Len(app.out.notes) :
                       app.out.notes[n] = app.input.validation_rules[r].rule_name
        /\ ~app.out.needs_review =>
              /\ app.out.notes = NullName
              /\ app.out.confidence = "high"

\* ------------------------------------------------------------------------
\* insert_schedule_entries and insert_fluid_specs, each applied on its own
\* on one connection, without database errors
\* ------------------------------------------------------------------------

\* The most calls on the connection, and the most elements of one list.
MaxInserts == 2
MaxBatch == 2

\* An entry with its action type and its interval_miles.
EntryOf(name, action, miles) ==
    [Entry(name, NullName) EXCEPT !.action_type = action,
                                  !.interval_miles = miles]

REPLACE_CAP == <<"R", "e", "p", "l", "a", "c", "e", " ">>

\* The schedule entries of an answer: without a name, with intervals that
\* are null, zero, inside and outside the bounds of the oil rule, and with
\* an interval that the LLM wrote as a string.
EntryPool ==
    {EntryOf(NullName, REPLACE, <<2000>>),
     EntryOf(<<>>, NullName, <<>>),
     EntryOf(OIL, NullName, <<2000>>),
     EntryOf(OIL, REPLACE_CAP, <<>>),
     EntryOf(OIL, REPLACE_CAP, <<0>>),
     EntryOf(OIL, REPLACE_CAP, <<2000>>),
     EntryOf(OL, REPLACE, <<5000>>),
     EntryOf(BELT, REPLACE, <<20000>>),
     EntryOf(OIL, REPLACE, <<"str", "5000">>),
     EntryOf(BELT, NullName, <<"str", "5000">>)}

EntryBatches == UNION {[1..n -> EntryPool] : n \in 0..MaxBatch}

\* The fluid specifications of an answer: without a type, and of one type
\* with every field, with no field, and with other values.
FluidPool ==
    {FluidOf(NULL, "5.0", "5.3", "with filter", "0W-20", "5W-30", "P1", "W1"),
     FluidOf("engine_oil", "5.0", "5.3", "with filter", "0W-20", "5W-30", "P1", "W1"),
     FluidOf("engine_oil", "6.0", NULL, "dry fill", "0W-30", NULL, "P2", NULL),
     FluidOf("coolant", NULL, NULL, NULL, "G13", NULL, NULL, NULL)}

FluidBatches == UNION {[1..n -> FluidPool] : n \in 0..MaxBatch}

ConfigIds == {1, 2}

\* __init__: the connection, the caches and the rules.
Connect(rules) ==
    /\ app.pc = "idle"
    /\ app' = [fn |-> "connect", pc |-> "open",
               input |-> [calls |-> 0, config_id |-> NULL_ID,
                          entries |-> <<>>, fluids |-> <<>>,
                          before |-> Entered("none").txn],
               out |-> [Entered("none") EXCEPT !.validation_rules = rules]]
    /\ AuxUnchanged
    /\ UNCHANGED <<cg, rl>>

\* inserted, flagged_count = self.insert_schedule_entries(config_id, entries)
InsertScheduleEntries(config_id, entries) ==
    /\ app.pc = "open"
    /\ app.input.calls < MaxInserts
    /\ ~Raised(app.out)
    /\ app' = [fn |-> "insert_schedule_entries", pc |-> "open",
               input |-> [calls |-> app.input.calls + 1,
                          config_id |-> config_id,
                          entries |-> entries, fluids |-> <<>>,
                          before |-> app.out.txn],
               out |-> insert_schedule_entries(app.out, config_id, entries)]
    /\ AuxUnchanged
    /\ UNCHANGED <<cg, rl>>

\* fluid_count = self.insert_fluid_specs(config_id, fluids)
InsertFluidSpecs(config_id, fluids) ==
    /\ app.pc = "open"
    /\ app.input.calls < MaxInserts
    /\ ~Raised(app.out)
    /\ app' = [fn |-> "insert_fluid_specs", pc |-> "open",
               input |-> [calls |-> app.input.calls + 1,
                          config_id |-> config_id,
                          entries |-> <<>>, fluids |-> fluids,
                          before |-> app.out.txn],
               out |-> insert_fluid_specs(app.out, config_id, fluids)]
    /\ AuxUnchanged
    /\ UNCHANGED <<cg, rl>>

InitInsert == Init /\ dry_run = FALSE

NextInsert ==
    \/ \E rules \in {<<>>, validation_rules} : Connect(rules)
    \/ \E config_id \in ConfigIds, entries \in EntryBatches :
          InsertScheduleEntries(config_id, entries)

SpecInsert == InitInsert /\ [][NextInsert]_vars

NextFluid ==
    \/ Connect(validation_rules)
    \/ \E config_id \in ConfigIds, fluids \in FluidBatches :
          InsertFluidSpecs(config_id, fluids)

SpecFluid == InitInsert /\ [][NextFluid]_vars

\* ------------------------------------------------------------------------
\* Claims about insert_schedule_entries and insert_fluid_specs
\* ------------------------------------------------------------------------

\* The entries of the call that have a non-empty item_name, in order.
NamedEntries == SelectSeq(app.input.entries, LAMBDA e : e.item_name \notin {NullName, <<>>})

\* The maintenance_schedules rows the call added.
RowsAdded ==
    SubSeq(app.out.txn.maintenance_schedules,
           Len(app.input.before.maintenance_schedules) + 1,
           Len(app.out.txn.maintenance_schedules))

\* C21: validation is advisory.  insert_schedule_entries inserts one row for
\* every entry with a non-empty item_name, whatever its interval values and
\* whatever rules apply; a violation only sets needs_review and confidence
\* 'low' on the row, and the call never ends with an exception.
C21_ValidationIsAdvisory ==
    app.fn = "insert_schedule_entries" =>
        /\ ~Raised(app.out)
        /\ Len(RowsAdded) = Len(NamedEntries)
        /\ \A k \in 1..Len(RowsAdded) :
              /\ RowsAdded[k].interval_miles = NamedEntries[k].interval_miles
              /\ RowsAdded[k].needs_review <=> RowsAdded[k].data_confidence = "low"

\* The data fields of a FluidSpecification row.
DataFields ==
    {"capacity_liters", "capacity_quarts", "capacity_note", "fluid_spec",
     "fluid_spec_alt", "oem_part_number", "fluid_warning"}

\* The rows of a store under a key.
FluidRows(store, config_id, fluid_type) ==
    {f \in store.fluid_specifications :
        /\ f.powertrain_config_id = config_id
        /\ f.fluid_type = fluid_type}

\* The call upserted one fluid spec onto a row that existed.
UpsertedOnto(old) ==
    /\ app.fn = "insert_fluid_specs"
    /\ Len(app.input.fluids) = 1
    /\ app.input.fluids[1].fluid_type # NULL
    /\ old \in FluidRows(app.input.before, app.input.config_id,
                         app.input.fluids[1].fluid_type)

\* C22: when insert_fluid_specs upserts a fluid spec onto an existing
\* (config_id, fluid_type) row, every data field of the resulting row is the
\* incoming value when that is non-null and the existing value otherwise.
C22_UpsertCoalescesEveryField ==
    app.fn = "insert_fluid_specs" =>
        \A old \in app.input.before.fluid_specifications :
            UpsertedOnto(old) =>
                \A new \in FluidRows(app.out.txn, old.powertrain_config_id,
                                     old.fluid_type) :
                    \A field \in DataFields :
                        new[field] = IF app.input.fluids[1][field] # NULL
                                     THEN app.input.fluids[1][field]
                                     ELSE old[field]

\* C23: at most one FluidSpecification row exists per (config_id,
\* fluid_type), also when one response lists a fluid_type twice and when a
\* later call targets an existing config; a fluid spec without a
\* fluid_type produces no row.
C23_OneRowPerConfigAndFluid ==
    app.fn = "insert_fluid_specs" =>
        /\ \A f, g \in app.out.txn.fluid_specifications :
              (/\ f.powertrain_config_id = g.powertrain_config_id
               /\ f.fluid_type = g.fluid_type) => f = g
        /\ \A f \in app.out.txn.fluid_specifications :
              /\ f.fluid_type # NULL
              /\ \/ f \in app.input.before.fluid_specifications
                 \/ \E k \in 1..Len(app.input.fluids) :
                       /\ app.input.fluids[k].fluid_type = f.fluid_type
                       /\ app.input.config_id = f.powertrain_config_id

\* A second call listed a fluid_type twice for a config that had it.
C23_Witness ==
    /\ app.fn = "insert_fluid_specs"
    /\ app.input.calls = 2
    /\ Len(app.input.fluids) = 2
    /\ app.input.fluids[1].fluid_type = "engine_oil"
    /\ app.input.fluids[2].fluid_type = "engine_oil"
    /\ app.input.fluids[1] # app.input.fluids[2]
    /\ FluidRows(app.input.before, app.input.config_id, "engine_oil") # {}
    /\ Cardinality(FluidRows(app.out.txn, app.input.config_id, "engine_oil")) = 1

\* ------------------------------------------------------------------------
\* _normalize_action_type applied on its own
\* ------------------------------------------------------------------------

Capitals ==
    {"A", "B", "C", "D", "E", "F", "G", "H", "I", "J", "K", "L", "M",
     "N", "O", "P", "Q", "R", "S", "T", "U", "V", "W", "X", "Y", "Z"}

UpperChar(c) ==
    IF \E u \in Capitals : LowerChar(u) = c
    THEN CHOOSE u \in Capitals : LowerChar(u) = c
    ELSE c

\* The spellings of a word an LLM answers with.
Spelled(w, how) ==
    CASE how = "lower" -> w
      [] how = "upper" -> [i \in 1..Len(w) |-> UpperChar(w[i])]
      [] how = "capital" -> [i \in 1..Len(w) |-> IF i = 1 THEN UpperChar(w[i]) ELSE w[i]]
      [] OTHER -> <<" ">> \o w \o <<" ", "\n">>

Spellings == {"lower", "upper", "capital", "padded"}

\* Strings that are neither valid action types nor keys of the map.
UnknownWords ==
    {<<"r", "e", "p", "l", "a", "c", "e", "d">>,
     <<"t", "o", "p">>,
     <<"t", "o", "p", "-", "o", "f", "f">>,
     <<"i", "n", "s", "p", "e", "c", "t", " ", "a", "n", "d", " ", "r", "e", "p", "l", "a", "c", "e">>}

\* The values of entry.get("action_type"): None, the empty string, blanks,
\* and valid, mapped and unknown words in every spelling.
RawActionTypes ==
    {NullName, <<>>, <<" ">>, <<" ", "\n">>}
    \cup {Spelled(w, how) :
            w \in VALID_ACTION_TYPES
                  \cup {ACTION_TYPE_MAP[k][1] : k \in 1..Len(ACTION_TYPE_MAP)}
                  \cup UnknownWords,
            how \in Spellings}

\* action_type = self._normalize_action_type(entry.get("action_type"))
NormalizeActionType(raw) ==
    /\ app.pc = "idle"
    /\ app' = [fn |-> "_normalize_action_type", pc |-> "normalized",
               input |-> raw,
               out |-> [once |-> _normalize_action_type(raw), twice |-> NullName]]
    /\ AuxUnchanged
    /\ UNCHANGED <<cg, rl>>

\* The normalizer applied to its own result.
NormalizeAgain ==
    /\ app.pc = "normalized"
    /\ app.fn = "_normalize_action_type"
    /\ app' = [app EXCEPT !.pc = "again",
                          !.out.twice = _normalize_action_type(app.out.once)]
    /\ AuxUnchanged
    /\ UNCHANGED <<cg, rl>>

InitNormalize == Init /\ dry_run = FALSE

NextNormalize ==
    \/ \E raw \in RawActionTypes : NormalizeActionType(raw)
    \/ NormalizeAgain

SpecNormalize == InitNormalize /\ [][NextNormalize]_vars

\* ------------------------------------------------------------------------
\* Claims about _normalize_action_type
\* ------------------------------------------------------------------------

\* C24: the action-type normalizer is idempotent: norm(norm(x)) = norm(x)
\* for every input x, null, empty, mixed-case and unknown strings included.
C24_NormalizerIdempotent ==
    (app.fn = "_normalize_action_type" /\ app.pc = "again") =>
        app.out.twice = app.out.once

\* A mapped word in another spelling was normalized twice.
C24_Witness ==
    /\ app.fn = "_normalize_action_type"
    /\ app.pc = "again"
    /\ app.input = <<"F", "L", "U", "S", "H">>
    /\ app.out.twice = REPLACE

\* The closed set of action types, and the aliases with their targets
\* (top_off in both of its spellings).
ClosedSet ==
    {REPLACE, INSPECT, CHECK, LUBRICATE, ROTATE, CLEAN, RESET, ADJUST,
     TIGHTEN_TORQUE, DIAGNOSE_TEST}

AliasTarget(x) ==
    CASE x \in {<<"c", "h", "a", "n", "g", "e">>, <<"f", "l", "u", "s", "h">>,
                <<"s", "e", "r", "v", "i", "c", "e">>,
                <<"r", "e", "f", "i", "l", "l">>} -> REPLACE
      [] x \in {<<"t", "o", "p", "_", "o", "f", "f">>,
                <<"t", "o", "p", " ", "o", "f", "f">>,
                <<"m", "e", "a", "s", "u", "r", "e">>} -> CHECK
      [] x = <<"t", "e", "s", "t">> -> DIAGNOSE_TEST
      [] x = <<"t", "o", "r", "q", "u", "e">> -> TIGHTEN_TORQUE
      [] x \in {<<"l", "u", "b", "e">>, <<"g", "r", "e", "a", "s", "e">>} -> LUBRICATE
      [] x = <<"e", "x", "a", "m", "i", "n", "e">> -> INSPECT
      [] OTHER -> NullName

\* The input lowercased and trimmed (null stays null).
Trimmed(x) == IF x = NullName THEN x ELSE Strip(Lower(x))

LoadedStep == runNo' = runNo + 1 /\ last'.outcome = "loaded"

\* The row the invocation appended to gemini_ingestion_log.
LoadedRow == db'.gemini_ingestion_log[Len(db'.gemini_ingestion_log)]

\* C26: the 'loaded' log row of a run carries is_duplicate = true exactly
\* when the run's PowertrainConfig row existed before the run and the run
\* inserted none, and false exactly when the run inserted the row.
C26_DuplicateFlagIffExisting ==
    [][LoadedStep =>
          /\ Len(db'.gemini_ingestion_log) = Len(db.gemini_ingestion_log) + 1
          /\ LoadedRow.status = "loaded"
          /\ LoadedRow.is_duplicate_config <=>
                /\ \E r \in db.powertrain_configs :
                      r.id = LoadedRow.powertrain_config_id
                /\ db'.powertrain_configs = db.powertrain_configs
          /\ ~LoadedRow.is_duplicate_config <=>
                \E r \in db'.powertrain_configs \ db.powertrain_configs :
                    r.id = LoadedRow.powertrain_config_id]_vars

\* Runs were logged 'loaded' with and without the duplicate flag.
C26_Witness ==
    \E i, j \in 1..Len(db.gemini_ingestion_log) :
        /\ db.gemini_ingestion_log[i].status = "loaded"
        /\ db.gemini_ingestion_log[j].status = "loaded"
        /\ ~db.gemini_ingestion_log[i].is_duplicate_config
        /\ db.gemini_ingestion_log[j].is_duplicate_config
        /\ db.gemini_ingestion_log[i].powertrain_config_id
              = db.gemini_ingestion_log[j].powertrain_config_id

\* C27: two pending configs with the same engine code and drive type but
\* different transmissions resolve to two distinct PowertrainConfig rows:
\* the taxonomy rows of the two never point to the same config.
C27_TransmissionsGetOwnConfigs ==
    \A i, j \in TaxIds :
        (/\ Taxonomy[i].engine_code = Taxonomy[j].engine_code
         /\ Taxonomy[i].drive_type = Taxonomy[j].drive_type
         /\ Taxonomy[i].transmission_type # Taxonomy[j].transmission_type
         /\ db.taxonomy[i].powertrain_config_id # NULL_ID
         /\ db.taxonomy[j].powertrain_config_id # NULL_ID)
        => db.taxonomy[i].powertrain_config_id # db.taxonomy[j].powertrain_config_id

\* ------------------------------------------------------------------------
\* process_config when call_gemini cannot parse the answer: the exception
\* and the 'rejected' log row
\* ------------------------------------------------------------------------

\* clean[:200] of the ValueError message, raw_response[:10000] of the log.
MESSAGE_PREVIEW == 200

RAW_TEXT_LIMIT == 10000

\* s[:n]
Prefix(s, n) == SubSeq(s, 1, IF n < Len(s) THEN n ELSE Len(s))

\* str(e) of the exception _extract_json raises for a text: the ValueError
\* of a text without a brace, built from the cleaned text, or a
\* json.JSONDecodeError, whose message is built from the parser's message
\* and position.
ExtractErrorMessage(text) ==
    IF Find(Strip(StripFences(text)), <<"{">>, FALSE) = 0
    THEN <<"No JSON object found in response: ">>
         \o Prefix(Strip(StripFences(text)), MESSAGE_PREVIEW) \o <<"...">>
    ELSE <<"<msg>: line <lineno> column <colno> (char <pos>)">>

\* log_ingestion: raw_response, a str, as the JSON value stored.
RawJson(raw_response) ==
    IF json_loads(raw_response).ok
    THEN [parsed |-> TRUE, raw_text |-> raw_response]
    ELSE [parsed |-> FALSE, raw_text |-> Prefix(raw_response, RAW_TEXT_LIMIT)]

\* A text of n characters without a brace.
Filler(n) == [i \in 1..n |-> "x"]

\* The answers of the last attempt: prose, with or without an object, in
\* or out of a fence, and prose longer than the preview of the message.
AnswerTexts ==
    {Fenced(f, Prefixes[p] \o body \o Suffixes[s]) :
        f \in Fences, p \in 1..Len(Prefixes), s \in 1..Len(Suffixes),
        body \in {<<>>, Serialize(Objects[1], <<>>), <<"{", "\"", "vehicle">>}}
    \cup {Filler(MESSAGE_PREVIEW + 50)}

\* gemini_data, raw_text = self.call_gemini(prompt): the text of the last
\* attempt arrives.
Answer(text) ==
    /\ app.pc = "idle"
    /\ app' = [fn |-> "process_config", pc |-> "answered",
               input |-> [text |-> text], out |-> <<>>]
    /\ AuxUnchanged
    /\ UNCHANGED <<cg, rl>>

\* _extract_json returns: process_config goes on to "Parse response".
AnswerParsed ==
    /\ app.pc = "answered"
    /\ app.fn = "process_config"
    /\ _extract_json(app.input.text).ok
    /\ app' = [app EXCEPT !.pc = "parsed"]
    /\ AuxUnchanged
    /\ UNCHANGED <<cg, rl>>

\* _extract_json raises on the last attempt and call_gemini re-raises.
AnswerRejected ==
    /\ app.pc = "answered"
    /\ app.fn = "process_config"
    /\ ~_extract_json(app.input.text).ok
    /\ app' = [app EXCEPT !.pc = "raised",
                          !.out = [message |-> ExtractErrorMessage(app.input.text)]]
    /\ AuxUnchanged
    /\ UNCHANGED <<cg, rl>>

\* except (ValueError, json.JSONDecodeError) as e:
\*     self.log_ingestion(config, prompt, str(e), "rejected", ...)
LogRejected ==
    /\ app.pc = "raised"
    /\ app.fn = "process_config"
    /\ app' = [app EXCEPT !.pc = "logged",
                          !.out = [status |-> "rejected",
                                   raw_response |-> RawJson(app.out.message)]]
    /\ AuxUnchanged
    /\ UNCHANGED <<cg, rl>>

InitReject == Init /\ dry_run = FALSE

NextReject ==
    \/ \E text \in AnswerTexts : Answer(text)
    \/ AnswerParsed
    \/ AnswerRejected
    \/ LogRejected

SpecReject == InitReject /\ [][NextReject]_vars

\* C28: when JSON extraction fails, the 'rejected' log row holds the LLM's
\* raw response text, cut to its first 10,000 characters, in raw_response.
C28_RejectedRowHoldsRawText ==
    (app.fn = "process_config" /\ app.pc = "logged") =>
        /\ app.out.status = "rejected"
        /\ app.out.raw_response.raw_text
              = SubSeq(app.input.text, 1,
                       IF Len(app.input.text) > 10000 THEN 10000
                       ELSE Len(app.input.text))

\* ------------------------------------------------------------------------
\* main(): the command line, the credential, the exit status
\* ------------------------------------------------------------------------

\* The most errors a run counts.
MaxErrors == 1

\* sys.argv: --make VALUE or absent, --all, --dry-run, --limit VALUE or
\* absent (NULL is absent).
ArgVectors ==
    [make : {NULL, "volvo"}, all : BOOLEAN, dry_run : BOOLEAN,
     limit : {NULL, "0", "5", "abc"}]

\* GOOGLE_AI_API_KEY or GEMINI_API_KEY of the environment: unset, empty, set.
ApiKeys == {NULL, "", "key"}

\* type=int of --limit accepts the value.
IsInt(v) == v \in {"0", "5"}

\* parser.parse_args() returns: one of --make and --all (the required
\* mutually exclusive group) and a --limit that is an integer, if given.
ArgsValid(argv) ==
    /\ (argv.make # NULL) # argv.all
    /\ argv.limit # NULL => IsInt(argv.limit)

\* The exit status of parser.error(), of sys.exit(1) and of an exception
\* that reaches the top of the interpreter; 0 when main() returns.
EXIT_USAGE == 2

EXIT_FAILURE == 1

\* The process starts with its command line and its environment.
Invoke(argv, key) ==
    /\ app.pc = "idle"
    /\ app' = [fn |-> "main", pc |-> "start",
               input |-> [argv |-> argv, GEMINI_API_KEY |-> key],
               out |-> [status |-> 0, connected |-> FALSE, ran |-> FALSE,
                        errors |-> 0, closed |-> FALSE]]
    /\ AuxUnchanged
    /\ UNCHANGED <<cg, rl>>

\* args = parser.parse_args(): argparse exits on a command line it rejects.
ParseArgs ==
    /\ app.fn = "main"
    /\ app.pc = "start"
    /\ app' = IF ArgsValid(app.input.argv)
              THEN [app EXCEPT !.pc = "parsed"]
              ELSE [app EXCEPT !.pc = "exited", !.out.status = EXIT_USAGE]
    /\ AuxUnchanged
    /\ UNCHANGED <<cg, rl>>

\* if not GEMINI_API_KEY: sys.exit(1)
CheckApiKey ==
    /\ app.fn = "main"
    /\ app.pc = "parsed"
    /\ app' = IF Truthy(app.input.GEMINI_API_KEY)
              THEN [app EXCEPT !.pc = "checked"]
              ELSE [app EXCEPT !.pc = "exited", !.out.status = EXIT_FAILURE]
    /\ AuxUnchanged
    /\ UNCHANGED <<cg, rl>>

\* extractor = GeminiScheduleExtractor(...): psycopg2.connect returns, or
\* raises and the exception ends the process.
Construct(db_up) ==
    /\ app.fn = "main"
    /\ app.pc = "checked"
    /\ app' = IF db_up
              THEN [app EXCEPT !.pc = "constructed", !.out.connected = TRUE]
              ELSE [app EXCEPT !.pc = "exited", !.out.status = EXIT_FAILURE]
    /\ AuxUnchanged
    /\ UNCHANGED <<cg, rl>>

\* try: extractor.run(...) finally: extractor.conn.close().  run() returns
\* with its configs processed and `errors` of them counted as errors, or
\* raises (get_pending_configs is outside its try).
RunAndClose(returns, errors) ==
    /\ app.fn = "main"
    /\ app.pc = "constructed"
    /\ app' = [app EXCEPT !.pc = "exited",
                          !.out.ran = returns,
                          !.out.errors = IF returns THEN errors ELSE 0,
                          !.out.closed = TRUE,
                          !.out.status = IF returns THEN 0 ELSE EXIT_FAILURE]
    /\ AuxUnchanged
    /\ UNCHANGED <<cg, rl>>

InitMain == Init /\ dry_run = FALSE

NextMain ==
    \/ \E argv \in ArgVectors, key \in ApiKeys : Invoke(argv, key)
    \/ ParseArgs
    \/ CheckApiKey
    \/ \E db_up \in BOOLEAN : Construct(db_up)
    \/ \E returns \in BOOLEAN, errors \in 0..MaxErrors : RunAndClose(returns, errors)

SpecMain == InitMain /\ [][NextMain]_vars

\* The command line is invalid: neither or both of --make and --all, or a
\* malformed --limit.
InvalidArguments ==
    \/ app.input.argv.make = NULL /\ ~app.input.argv.all
    \/ app.input.argv.make # NULL /\ app.input.argv.all
    \/ app.input.argv.limit \notin {NULL, "0", "5"}

NoCredential == app.input.GEMINI_API_KEY \in {NULL, ""}

\* C29: main() exits with status 0 whenever the run completes, also with
\* configs counted as errors, and with status 1 only without an API
\* credential or with invalid arguments, both of which exit with 1; without
\* a credential it exits before any database connection.
C29_ExitStatus ==
    (app.fn = "main" /\ app.pc = "exited") =>
        /\ app.out.ran => app.out.status = 0
        /\ app.out.status = 1 => NoCredential \/ InvalidArguments
        /\ NoCredential \/ InvalidArguments =>
              /\ app.out.status = 1
              /\ ~app.out.connected

\* ------------------------------------------------------------------------
\* Claims about run()
\* ------------------------------------------------------------------------

\* C30: with --limit N, N >= 0, run() processes at most N configs: the
\* first N pending configs in engine_code order.
C30_LimitBoundsConfigs ==
    [][\A make \in MakeArgs, limit \in LimitArgs :
          (limit # <<>> /\ Run(make, limit)) =>
              /\ Len(configs') <= limit[1]
              /\ \E q \in get_pending_configs(txn, make) :
                    configs' = SubSeq(q, 1, IF limit[1] < Len(q)
                                            THEN limit[1] ELSE Len(q))]_vars

\* ------------------------------------------------------------------------
\* Dry run
\* ------------------------------------------------------------------------

\* A process_config invocation has just ended.
Invoked == runNo' = runNo + 1

\* C31: with --dry-run an invocation of process_config issues no LLM
\* request and writes nothing: the store as committed and as the open
\* transaction sees it, the sequences, both caches and the counters are
\* what they were before it.
C31_DryRunTouchesNothing ==
    [][(dry_run /\ Invoked) =>
            /\ ~last'.called
            /\ db' = db
            /\ txn' = txn
            /\ seq' = seq
            /\ items_cache' = items_cache
            /\ aliases_cache' = aliases_cache
            /\ stats' = stats]_vars

\* A dry run went through two configs.
C31_Witness ==
    /\ dry_run
    /\ runNo = 2
    /\ last.outcome = "dry_run"
    /\ db = EmptyStore

\* ------------------------------------------------------------------------
\* The two retry loops of call_gemini
\* ------------------------------------------------------------------------

\* The statuses the claim names.
RetryStatuses == {429, 500, 503}

\* The response just received has an error status.
ErrorStatus(status) == status >= 400

\* The step issues a request and the inner loop goes round again.
HttpRetry == cg.pc = "post" /\ cg'.pc = "post" /\ cg'.attempt = cg.attempt

\* The step starts another outer attempt.
OuterRetry == cg.pc # "idle" /\ cg'.attempt > cg.attempt

\* C32: in call_gemini only 429, 500 and 503 make the inner loop issue the
\* request again; an error status that is not one of them, or one of them
\* on the fifth request of an outer attempt, ends in an HTTPError with no
\* further request; and another outer attempt starts only after a parse
\* failure on a successful response, with the count of HTTP attempts back
\* at zero.
C32_RetryLevels ==
    [][/\ HttpRetry =>
            /\ cg'.status \in RetryStatuses
            /\ cg'.in_attempt < max_http_retries
       /\ (/\ cg.pc = "post"
           /\ ErrorStatus(cg'.status)
           /\ \/ cg'.status \notin RetryStatuses
              \/ cg'.in_attempt = max_http_retries) =>
            cg'.pc = "raise_for_status"
       /\ (cg.pc = "raise_for_status" /\ ErrorStatus(cg.status)) =>
            /\ cg'.pc = "raised"
            /\ cg'.raised = "HTTPError"
            /\ cg'.requests = cg.requests
            /\ cg'.attempt = cg.attempt
       /\ OuterRetry =>
            /\ cg.pc = "parse"
            /\ ~ErrorStatus(cg.status)
            /\ cg'.pc = "post"
            /\ cg'.http_attempt = 0
            /\ cg'.in_attempt = 0]_vars

\* After a parse failure the second outer attempt used all five of its
\* own HTTP attempts and the call raised HTTPError.
C32_Witness ==
    /\ cg.pc = "raised"
    /\ cg.raised = "HTTPError"
    /\ cg.attempt = retries
    /\ cg.in_attempt = max_http_retries
    /\ cg.requests > max_http_retries
    /\ cg.status \in RetryStatuses

\* ------------------------------------------------------------------------
\* The order of the persistence steps
\* ------------------------------------------------------------------------

\* The place of a write in the order the claim gives: the config, the
\* schedule rows (with the items match_item creates for them), the fluid
\* specs, the vehicle applications, the taxonomy, the log row, the commit.
StepRank(kind) ==
    CASE kind = "powertrain_configs" -> 1
      [] kind \in {"maintenance_items", "maintenance_schedules"} -> 2
      [] kind = "fluid_specifications" -> 3
      [] kind = "vehicle_applications" -> 4
      [] kind = "nhtsa_vehicle_taxonomy" -> 5
      [] kind = "gemini_ingestion_log" -> 6
      [] kind = "commit" -> 7

\* The writes of the latest invocation came in the order of StepRank, with
\* one commit, after all of them.
InStepOrder ==
    /\ \A i, j \in DOMAIN last.order :
          i < j => StepRank(last.order[i]) <= StepRank(last.order[j])
    /\ Cardinality({i \in DOMAIN last.order : last.order[i] = "commit"}) = 1
    /\ last.order[Len(last.order)] = "commit"

\* The configs that have schedule rows in the committed store.
ScheduledConfigs ==
    {db.maintenance_schedules[i].powertrain_config_id :
        i \in DOMAIN db.maintenance_schedules}

\* The committed store has the config's row, a vehicle application of it,
\* a taxonomy row marked 'extracted' for it and a 'loaded' log row of it.
FullyLoaded(c) ==
    /\ \E p \in db.powertrain_configs : p.id = c
    /\ \E a \in db.vehicle_applications : a.powertrain_config_id = c
    /\ \E id \in TaxIds :
          /\ db.taxonomy[id].schedule_status = "extracted"
          /\ db.taxonomy[id].powertrain_config_id = c
    /\ \E i \in DOMAIN db.gemini_ingestion_log :
          /\ db.gemini_ingestion_log[i].status = "loaded"
          /\ db.gemini_ingestion_log[i].powertrain_config_id = c

\* C33: an invocation of process_config that ends loaded made its writes in
\* the fixed order config, schedule rows, fluid specs, vehicle
\* applications, taxonomy status, log row, and committed once, last; and
\* the committed store never holds schedule rows of a config without that
\* config's vehicle applications, taxonomy update and log row.
C33_FixedOrderOneTransaction ==
    /\ last.outcome = "loaded" => InStepOrder
    /\ \A c \in ScheduledConfigs : FullyLoaded(c)

\* An invocation wrote all six tables and committed them together.
C33_Witness ==
    /\ last.outcome = "loaded"
    /\ last.order = <<"powertrain_configs", "maintenance_schedules",
                      "fluid_specifications", "vehicle_applications",
                      "nhtsa_vehicle_taxonomy", "gemini_ingestion_log",
                      "commit">>
    /\ ScheduledConfigs # {}

\* ------------------------------------------------------------------------
\* The caches and the store
\* ------------------------------------------------------------------------

\* The item ids the two caches hold.
CachedIds == DictValues(items_cache) \cup DictValues(aliases_cache)

\* C34 (as the claim states it): between invocations of process_config
\* every item id in the name and alias caches is the id of a
\* MaintenanceItem row of the store.
C34_CachedItemsExist ==
    \A id \in CachedIds : \E it \in txn.maintenance_items : it.id = id

\* ------------------------------------------------------------------------
\* update_taxonomy_status on its own: any rows, in any status
\* ------------------------------------------------------------------------

MaxUpdates == 3

\* The taxonomy_ids of a config.
TaxonomyIdSets == SUBSET TaxIds \ {{}}

\* The two calls of process_config: (taxonomy_ids, None, "skipped") and
\* (taxonomy_ids, config_id), status defaulting to "extracted".
StatusUpdates ==
    {<<NULL_ID, "skipped">>} \cup {<<c, "extracted">> : c \in ConfigIds}

\* self.update_taxonomy_status(taxonomy_ids, config_id, status)
UpdateTaxonomyStatus(taxonomy_ids, config_id, status) ==
    /\ app.pc = "open"
    /\ app.input.calls < MaxUpdates
    /\ app' = [fn |-> "update_taxonomy_status", pc |-> "open",
               input |-> [calls |-> app.input.calls + 1,
                          config_id |-> config_id,
                          taxonomy_ids |-> taxonomy_ids,
                          status |-> status,
                          before |-> app.out.txn],
               out |-> update_taxonomy_status(app.out, taxonomy_ids,
                                              config_id, status)]
    /\ AuxUnchanged
    /\ UNCHANGED <<cg, rl>>

NextTaxonomy ==
    \/ Connect(validation_rules)
    \/ \E taxonomy_ids \in TaxonomyIdSets, u \in StatusUpdates :
          UpdateTaxonomyStatus(taxonomy_ids, u[1], u[2])

SpecTaxonomy == InitInsert /\ [][NextTaxonomy]_vars

\* The taxonomy row before and after the call.
RowBefore(id) == app.input.before.taxonomy[id]

RowAfter(id) == app.out.txn.taxonomy[id]

\* C35: update_taxonomy_status changes a taxonomy row only out of
\* 'pending', to 'extracted' or 'skipped'; a row that is 'extracted' or
\* 'skipped' keeps its status and its powertrain_config_id, also when it
\* is among the taxonomy_ids of the call.
C35_StatusLeavesPendingOnly ==
    app.fn = "update_taxonomy_status" =>
        \A id \in TaxIds :
            /\ RowBefore(id).schedule_status # "pending" =>
                  RowAfter(id) = RowBefore(id)
            /\ RowAfter(id) # RowBefore(id) =>
                  /\ RowBefore(id).schedule_status = "pending"
                  /\ RowAfter(id).schedule_status \in {"extracted", "skipped"}
                  /\ id \in app.input.taxonomy_ids

\* A call named a row already 'extracted' for another config together
\* with a pending one, and moved only the pending one.
C35_Witness ==
    /\ app.fn = "update_taxonomy_status"
    /\ app.input.status = "skipped"
    /\ \E id \in app.input.taxonomy_ids :
          /\ RowBefore(id).schedule_status = "extracted"
          /\ RowAfter(id) = RowBefore(id)
    /\ \E id \in app.input.taxonomy_ids :
          /\ RowBefore(id).schedule_status = "pending"
          /\ RowAfter(id).schedule_status = "skipped"

\* ------------------------------------------------------------------------
\* A truncated answer in process_config
\* ------------------------------------------------------------------------

\* Python's `not v` of a parsed JSON value.
Falsy(v) ==
    IF v.t = "n" THEN v.v \in {"null", "false", "0"} ELSE v.v = <<>>

\* entries = gemini_data.get("schedule_entries", []); if not entries: the
\* branch that logs 'flagged' and sets the taxonomy rows to 'skipped'.
NoEntries(gemini_data) ==
    Falsy(GetOr(gemini_data, <<"schedule_entries">>, List(<<>>)))

\* C36 (as the claim states it): an answer that was cut off and repaired by
\* _repair_truncated_json is never taken for an answer without schedule
\* entries, so it never sets the config's taxonomy rows to 'skipped'.
C36_TruncatedNeverSkipped ==
    Extracted("truncated") => ~(app.out.ok /\ NoEntries(app.out.val))

\* ------------------------------------------------------------------------
\* match_item called again and again in one process
\* ------------------------------------------------------------------------

MaxMatches == 3

OILS == <<"O", "i", "l", "s">>
OILSS == <<"O", "i", "l", "s", "s">>

\* The stores the extractor is started on, and the names the LLM uses.
ChainStores ==
    {{StoredItem(1, OIL, <<LUBE>>)},
     {StoredItem(1, OIL, <<LUBE>>), StoredItem(4, BELT, <<>>)}}

ChainNames == {OILS, OILSS, BOLT, TIRE}

\* __init__, then the calls of insert_schedule_entries one after another.
LoadChain(items) ==
    /\ app.pc = "idle"
    /\ app' = [fn |-> "match_items", pc |-> "loaded",
               input |-> [S |-> Loaded(items), item_name |-> NullName,
                          calls |-> 0],
               out |-> Loaded(items)]
    /\ AuxUnchanged
    /\ UNCHANGED <<cg, rl>>

\* item_id = self.match_item(item_name), on the caches the earlier calls
\* left.
MatchNext(item_name) ==
    /\ app.fn = "match_items"
    /\ app.pc \in {"loaded", "returned"}
    /\ app.input.calls < MaxMatches
    /\ app' = [fn |-> "match_items", pc |-> "returned",
               input |-> [S |-> app.out, item_name |-> item_name,
                          calls |-> app.input.calls + 1],
               out |-> match_item(app.out, item_name)]
    /\ AuxUnchanged
    /\ UNCHANGED <<cg, rl>>

NextChain ==
    \/ \E items \in ChainStores : LoadChain(items)
    \/ \E item_name \in ChainNames : MatchNext(item_name)

SpecChain == InitMatch /\ [][NextChain]_vars

\* The call went through the fuzzy step and returned an existing item:
\* the normalized name was in neither cache and no item was created.
FuzzyResolved ==
    /\ app.fn = "match_items"
    /\ app.pc = "returned"
    /\ ~DictHas(app.input.S.items_cache, Normalize(app.input.item_name))
    /\ ~DictHas(app.input.S.aliases_cache, Normalize(app.input.item_name))
    /\ app.out.txn.maintenance_items = app.input.S.txn.maintenance_items

\* The ratio of a to b is at least 0.80.
Similar(a, b) == 5 * Ratio(a, b)[1] >= 4 * Ratio(a, b)[2]

\* The item's stored name or one of its stored aliases is similar to it.
SimilarToStored(normalized, it) ==
    \/ Similar(normalized, Normalize(it.name))
    \/ \E k \in 1..Len(it.name_aliases) :
          Similar(normalized, Normalize(it.name_aliases[k]))

\* C37 (as the claim states it): a name that match_item resolves in its
\* fuzzy step is at a ratio of 0.80 or more to the stored name or a stored
\* alias of the item returned, whatever calls came before.
C37_FuzzyMatchIsCloseToStored ==
    FuzzyResolved =>
        \E it \in app.out.txn.maintenance_items :
            /\ it.id = app.out.ret
            /\ SimilarToStored(Normalize(app.input.item_name), it)

\* ------------------------------------------------------------------------
\* The counters of run()
\* ------------------------------------------------------------------------

Counters == {"configs_processed", "configs_skipped", "errors"}

\* configs_processed + configs_skipped + errors
Counted3(st) == st.configs_processed + st.configs_skipped + st.errors

\* The step adds one to exactly one of the three counters.
OneCounterMore ==
    \E c \in Counters :
        /\ stats'[c] = stats[c] + 1
        /\ \A d \in Counters \ {c} : stats'[d] = stats[d]

\* C38: without --dry-run every invocation of process_config adds one to
\* exactly one of configs_processed, configs_skipped and errors, whether it
\* returns or raises into run(); so the three add up to the number of
\* configs processed.
C38_OneCounterPerConfig ==
    /\ [](~dry_run => Counted3(stats) = runNo)
    /\ [][(~dry_run /\ Invoked) => OneCounterMore]_vars

\* A config ended in run()'s except clause and the next one was loaded.
C38_Witness ==
    /\ ~dry_run
    /\ hist = <<"fatal", "loaded">>
    /\ stats.errors = 1
    /\ stats.configs_processed = 1

\* ------------------------------------------------------------------------
\* _validate_entry and the months
\* ------------------------------------------------------------------------

\* The rule with month bounds.
WithMonths(rule, min, max) ==
    [rule EXCEPT !.min_interval_months = min, !.max_interval_months = max]

\* min_interval_months and max_interval_months of a rule, and the
\* interval_months of an entry.
MonthBounds == {<<<<>>, <<>>>>, <<<<12>>, <<>>>>, <<<<6>>, <<12>>>>}

IntervalMonths == {<<>>, <<3>>, <<12>>, <<24>>}

\* The rule sets, every rule with the same mile bounds as in the pool.
MonthRulePool ==
    {Rule("oil_change", OIL, REPLACE, <<3000>>, <<15000>>),
     Rule("any_interval", NullName, NullName, <<>>, <<15000>>)}

MonthRuleLists == UNION {[1..n -> MonthRulePool] : n \in 0..MaxRules}

\* The rules, each with the month bounds b.
Bounded(rules, b) == [r \in DOMAIN rules |-> WithMonths(rules[r], b[1], b[2])]

\* Two calls that differ in interval_months and in the month bounds of
\* the rules only.
ValidateTwice(rules, item_name, action_type, interval_miles, months, bounds) ==
    /\ app.pc = "idle"
    /\ app' = [fn |-> "_validate_entry twice", pc |-> "returned",
               input |-> [validation_rules |-> rules, item_name |-> item_name,
                          action_type |-> action_type,
                          interval_miles |-> interval_miles,
                          months |-> months, bounds |-> bounds],
               out |-> <<_validate_entry(Bounded(rules, bounds[1]), item_name,
                                         action_type, interval_miles,
                                         months[1]),
                         _validate_entry(Bounded(rules, bounds[2]), item_name,
                                         action_type, interval_miles,
                                         months[2])>>]
    /\ AuxUnchanged
    /\ UNCHANGED <<cg, rl>>

NextMonths ==
    \E rules \in MonthRuleLists, item_name \in {OIL, BELT},
       action_type \in ActionTypes,
       interval_miles \in {<<>>, <<2000>>, <<5000>>},
       months \in IntervalMonths \X IntervalMonths,
       bounds \in MonthBounds \X MonthBounds :
        ValidateTwice(rules, item_name, action_type, interval_miles, months,
                      bounds)

SpecMonths == InitValidate /\ [][NextMonths]_vars

\* C39: _validate_entry returns the same needs_review, notes and
\* confidence for two entries that differ only in interval_months, and
\* under two rule sets that differ only in min_interval_months and
\* max_interval_months.
C39_MonthsDoNotCount ==
    app.fn = "_validate_entry twice" => app.out[1] = app.out[2]

\* An applicable rule bounds the months at 6 to 12; the entry is within
\* its mile bounds with 3 months in one call and 12 in the other, and is
\* not flagged in either.
C39_Witness ==
    /\ app.fn = "_validate_entry twice"
    /\ app.input.validation_rules # <<>>
    /\ app.input.item_name = OIL
    /\ app.input.interval_miles = <<5000>>
    /\ app.input.months = <<<<3>>, <<12>>>>
    /\ app.input.bounds[1] = <<<<6>>, <<12>>>>
    /\ app.input.bounds[2] = <<<<6>>, <<12>>>>
    /\ ~app.out[1].needs_review
    /\ ~app.out[2].needs_review

====
